---- MODULE Spec2Model ----
(***************************************************************************)
(* DebtTracker bot (src/debt_tracker.py): the per-chat conversation state  *)
(* machine (handle_message, handle_callback_query, the five commands) over *)
(* the SQLite ledger (tables debtors and debts).                           *)
(*                                                                         *)
(* Modelling conventions                                                   *)
(*  - A text is a sequence of one-character strings, so that float() and   *)
(*    strptime() are computed from the characters.                         *)
(*  - None / SQL NULL is the empty sequence <<>>; a present optional value *)
(*    v is <<v>>.                                                          *)
(*  - A Python dict keyed by chat_id is a function whose DOMAIN is the set *)
(*    of keys present.                                                     *)
(*  - An uncaught exception (KeyError, sqlite3.IntegrityError) ends the    *)
(*    handler; what it assigned before the exception stays assigned.       *)
(*  - Updates are handled one at a time (the Application is built without  *)
(*    concurrent_updates), so each handler is one step; the repayment      *)
(*    handler is two steps because it commits two transactions and the     *)
(*    store between them is a committed state of the database.             *)
(***************************************************************************)
EXTENDS Integers, Sequences, FiniteSets, TLC

(* ------------------------------ bounds --------------------------------- *)
\* rows the debtors table may ever receive (AUTOINCREMENT ids 1..MaxDebtors)
MaxDebtors == 2
\* rows the debts table may ever receive (AUTOINCREMENT ids 1..MaxDebts)
MaxDebts == 2

Chats == {1, 2}

T_Ivan == <<"I", "v", "a", "n">>
T_Olga == <<"O", "l", "g", "a">>
T_lunch == <<"l", "u", "n", "c", "h">>
T_taxi == <<"t", "a", "x", "i">>
T_abc == <<"a", "b", "c">>
T_neg5 == <<"-", "5">>
T_0 == <<"0">>
T_200 == <<"2", "0", "0">>
T_300 == <<"3", "0", "0">>
T_500 == <<"5", "0", "0">>
T_0004 == <<"0", ".", "0", "0", "4">>
T_date_yy == <<"0", "5", ".", "0", "3", ".", "2", "5">>
T_date_dash == <<"6", "-", "3", "-", "2", "0", "2", "5">>
T_date_bad == <<"3", "1", ".", "0", "2", ".", "2", "5">>
T_date_long == <<"0", "5", ".", "0", "3", ".", "2", "0", "2", "5">>
T_date_leap == <<"2", "9", "-", "0", "2", "-", "2", "4">>
T_date_mixed == <<"0", "5", ".", "0", "3", "-", "2", "5">>
T_date_short == <<"5", ".", "3", ".", "7", "0">>

\* texts a user types where a name, a reason, an amount or a date is awaited
NameTexts == {T_Ivan, T_Olga}
ReasonTexts == {T_lunch, T_taxi}
RejectedAmountTexts == {T_abc, T_neg5, T_0}
AmountTexts == RejectedAmountTexts \cup {T_200, T_300, T_500}
PaymentAmountTexts == RejectedAmountTexts \cup {T_200}
RejectedDateTexts == {T_abc, T_date_bad}
DateTexts == RejectedDateTexts \cup {T_date_yy}
StrayTexts == {T_abc}
\* texts the date parsing is probed with
ProbeDateTexts ==
    DateTexts \cup {T_date_dash, T_date_long, T_date_leap, T_date_mixed,
                     T_date_short, T_0004, T_500}
Texts == NameTexts \cup ReasonTexts \cup AmountTexts \cup DateTexts
             \cup {T_date_dash}

DebtorIds == 1..MaxDebtors
DebtIds == 1..MaxDebts

(* ------------------------- conversation states ------------------------- *)
STATE_IDLE == 0
STATE_ADDING_DEBTOR_NAME == 1
STATE_ADDING_DEBT_REASON == 2
STATE_ADDING_DEBT_AMOUNT == 3
STATE_EDITING_CHOOSE_DEBT == 4
STATE_EDITING_CHOOSE_WHAT_TO_EDIT == 5
STATE_EDITING_AMOUNT == 6
STATE_EDITING_REASON == 7
STATE_CONFIRMING_CLOSE_DEBT == 8
STATE_SUBTRACTING_FROM_DEBT == 9
STATE_CONFIRMING_DELETE_DEBTOR == 10
STATE_SETTING_PAYMENT_DATE == 11
STATE_SETTING_PAYMENT_AMOUNT == 12
STATE_EDITING_PAYMENT_DATE == 13
STATE_EDITING_PAYMENT_AMOUNT == 14

(* ------------------------------ helpers -------------------------------- *)
NULL == <<>>
Some(v) == <<v>>

\* dict.pop(k, None)
Pop(f, k) == [x \in DOMAIN f \ {k} |-> f[x]]
\* dict[k] = v
Put(f, k, v) == [x \in DOMAIN f \cup {k} |-> IF x = k THEN v ELSE f[x]]

RECURSIVE SortById(_)
\* rows of a table in rowid order, as a SELECT without ORDER BY returns them
SortById(rows) ==
    IF rows = {} THEN <<>>
    ELSE LET first == CHOOSE r \in rows : \A q \in rows : r.id <= q.id
         IN <<first>> \o SortById(rows \ {first})

(* ------------------------------ float() -------------------------------- *)
Digits == <<"0", "1", "2", "3", "4", "5", "6", "7", "8", "9">>
IsDigit(ch) == \E i \in DOMAIN Digits : Digits[i] = ch
DigitVal(ch) == (CHOOSE i \in DOMAIN Digits : Digits[i] = ch) - 1

RECURSIVE DigitsValue(_)
DigitsValue(s) ==
    IF s = <<>> THEN 0
    ELSE 10 * DigitsValue(SubSeq(s, 1, Len(s) - 1)) + DigitVal(s[Len(s)])

AllDigits(s) == Len(s) > 0 /\ \A i \in DOMAIN s : IsDigit(s[i])

RECURSIVE Split(_, _)
\* the fields of s between occurrences of the character sep
Split(s, sep) ==
    IF \A i \in DOMAIN s : s[i] # sep THEN <<s>>
    ELSE LET k == CHOOSE i \in DOMAIN s :
                      s[i] = sep /\ \A j \in 1..(i - 1) : s[j] # sep
         IN <<SubSeq(s, 1, k - 1)>> \o Split(SubSeq(s, k + 1, Len(s)), sep)

\* float() of an unsigned decimal literal: digits, or digits "." digits.
\* An amount is counted in thousandths of a rouble, the finest step among
\* the texts of the model, so that "500" is 500000 and "0.004" is 4.
ParseDecimal(text) ==
    IF AllDigits(text) THEN Some(1000 * DigitsValue(text))
    ELSE LET f == Split(text, ".")
         IN IF Len(f) = 2 /\ AllDigits(f[1]) /\ AllDigits(f[2]) /\ Len(f[2]) <= 3
            THEN Some(1000 * DigitsValue(f[1])
                      + DigitsValue(f[2]) * (CASE Len(f[2]) = 1 -> 100
                                               [] Len(f[2]) = 2 -> 10
                                               [] OTHER -> 1))
            ELSE NULL

\* float(text) for the texts of the model (an optional sign and a decimal
\* literal, or something that is no number): <<value>>, or <<>> for ValueError
ParseFloat(text) ==
    LET v == ParseDecimal(text)
        w == ParseDecimal(Tail(text))
    IN IF v # NULL THEN v
       ELSE IF Len(text) > 1 /\ text[1] = "-" /\ w # NULL THEN Some(0 - w[1])
       ELSE IF Len(text) > 1 /\ text[1] = "+" /\ w # NULL THEN w
       ELSE NULL

\* the try/except with the test amount < 0 in place of amount <= 0
ParseAmount_accepts_zero(text) ==
    LET v == ParseFloat(text)
    IN IF v # NULL /\ v[1] >= 0 THEN v ELSE NULL

\* the try/except of every amount-awaiting branch: the amount, or <<>> when
\* float() raised or the amount is <= 0
ParseAmount(text) ==
    LET v == ParseFloat(text)
    IN IF v # NULL /\ v[1] > 0 THEN v ELSE NULL

(* ------------------------- datetime.strptime --------------------------- *)
\* %d and %m: one or two digits, value 1..max ("0" and "00" do not match)
DayMonthField(f, max) ==
    /\ Len(f) \in {1, 2}
    /\ AllDigits(f)
    /\ DigitsValue(f) >= 1
    /\ DigitsValue(f) <= max

IsLeap(y) == (y % 4 = 0 /\ y % 100 # 0) \/ y % 400 = 0
DaysInMonth(y, m) ==
    IF m = 2 THEN (IF IsLeap(y) THEN 29 ELSE 28)
    ELSE IF m \in {4, 6, 9, 11} THEN 30 ELSE 31

\* %Y is exactly four digits; %y is exactly two, 00..68 -> 20xx, 69..99 -> 19xx
YearField(f, four) ==
    IF four THEN (IF Len(f) = 4 /\ AllDigits(f) THEN Some(DigitsValue(f)) ELSE NULL)
    ELSE IF Len(f) = 2 /\ AllDigits(f)
         THEN Some(IF DigitsValue(f) <= 68 THEN 2000 + DigitsValue(f)
                   ELSE 1900 + DigitsValue(f))
    ELSE NULL

\* datetime.strptime(text, "%d<sep>%m<sep>%Y" or "...%y"): <<date>> or <<>>
Strptime(text, sep, four) ==
    LET f == Split(text, sep)
    IN IF Len(f) # 3 THEN NULL
       ELSE IF ~DayMonthField(f[1], 31) \/ ~DayMonthField(f[2], 12) THEN NULL
       ELSE LET y == YearField(f[3], four)
                d == DigitsValue(f[1])
                m == DigitsValue(f[2])
            IN IF y = NULL THEN NULL
               ELSE IF y[1] < 1 \/ d > DaysInMonth(y[1], m) THEN NULL
               ELSE Some([year |-> y[1], month |-> m, day |-> d])

\* date_formats = ["%d.%m.%Y", "%d.%m.%y", "%d-%m-%Y", "%d-%m-%y"], the first
\* format that parses decides; <<>> when none does
ParseDate(text) ==
    IF Strptime(text, ".", TRUE) # NULL THEN Strptime(text, ".", TRUE)
    ELSE IF Strptime(text, ".", FALSE) # NULL THEN Strptime(text, ".", FALSE)
    ELSE IF Strptime(text, "-", TRUE) # NULL THEN Strptime(text, "-", TRUE)
    ELSE Strptime(text, "-", FALSE)

(* --------------------------- the ledger store -------------------------- *)
\* sqlite3.connect() leaves PRAGMA foreign_keys at SQLite's default, OFF, and
\* no connection of the program turns it on: ON DELETE CASCADE is not enforced
foreign_keys == FALSE

\* add_debtor on a table without the UNIQUE(name, chat_id) constraint
add_debtor_without_unique(rows, seq, debtor_name, chat_id) ==
    LET row == [id |-> seq + 1, name |-> debtor_name, chat_id |-> chat_id,
                payment_date |-> NULL, payment_amount |-> NULL]
    IN [debtors |-> rows \cup {row}, seq |-> seq + 1, is_new |-> TRUE,
        debtor |-> row]

\* add_debtor on a table declared UNIQUE(name)
add_debtor_unique_name(rows, seq, debtor_name, chat_id) ==
    IF \E d \in rows : d.name = debtor_name
    THEN [debtors |-> rows, seq |-> seq, is_new |-> FALSE,
          debtor |-> CHOOSE d \in rows : d.name = debtor_name]
    ELSE LET row == [id |-> seq + 1, name |-> debtor_name, chat_id |-> chat_id,
                     payment_date |-> NULL, payment_amount |-> NULL]
         IN [debtors |-> rows \cup {row}, seq |-> seq + 1, is_new |-> TRUE,
             debtor |-> row]

\* add_debtor: INSERT, or on the UNIQUE(name, chat_id) conflict the SELECT of
\* the existing row.  db is [debtors, seq]; seq is the AUTOINCREMENT counter.
add_debtor(rows, seq, debtor_name, chat_id) ==
    IF \E d \in rows : d.name = debtor_name /\ d.chat_id = chat_id
    THEN [debtors |-> rows, seq |-> seq, is_new |-> FALSE,
          debtor |-> CHOOSE d \in rows :
                         d.name = debtor_name /\ d.chat_id = chat_id]
    ELSE LET row == [id |-> seq + 1, name |-> debtor_name, chat_id |-> chat_id,
                     payment_date |-> NULL, payment_amount |-> NULL]
         IN [debtors |-> rows \cup {row}, seq |-> seq + 1, is_new |-> TRUE,
             debtor |-> row]

get_debtor_by_name(rows, name, chat_id) ==
    IF \E d \in rows : d.name = name /\ d.chat_id = chat_id
    THEN Some(CHOOSE d \in rows : d.name = name /\ d.chat_id = chat_id)
    ELSE NULL

get_debtor_by_id(rows, debtor_id) ==
    IF \E d \in rows : d.id = debtor_id
    THEN Some(CHOOSE d \in rows : d.id = debtor_id)
    ELSE NULL

\* add_debt as INSERT OR REPLACE on a table keyed by debtor_id
add_debt_replaces(rows, seq, debtor_id, amount, reason) ==
    [debts |-> {d \in rows : d.debtor_id # debtor_id}
                   \cup {[id |-> seq + 1, debtor_id |-> debtor_id,
                          amount |-> amount, reason |-> reason]},
     seq |-> seq + 1]

\* add_debt: the INSERT; the returned record is the new table and counter
add_debt(rows, seq, debtor_id, amount, reason) ==
    [debts |-> rows \cup {[id |-> seq + 1, debtor_id |-> debtor_id,
                           amount |-> amount, reason |-> reason]},
     seq |-> seq + 1]

\* list_debtors without its WHERE chat_id = ? clause
list_debtors_all(rows, chat_id) == SortById(rows)

list_debtors(rows, chat_id) ==
    SortById({d \in rows : d.chat_id = chat_id})

list_debts(rows, debtor_id) ==
    LET mine == SortById({d \in rows : d.debtor_id = debtor_id})
    IN [i \in DOMAIN mine |->
           [id |-> mine[i].id, amount |-> mine[i].amount, reason |-> mine[i].reason]]

get_debt_by_id(rows, debt_id) ==
    IF \E d \in rows : d.id = debt_id
    THEN Some(CHOOSE d \in rows : d.id = debt_id)
    ELSE NULL

update_debt_amount(rows, debt_id, new_amount) ==
    {IF d.id = debt_id THEN [d EXCEPT !.amount = new_amount] ELSE d : d \in rows}

update_debt_reason(rows, debt_id, new_reason) ==
    {IF d.id = debt_id THEN [d EXCEPT !.reason = new_reason] ELSE d : d \in rows}

\* close_debt with WHERE debtor_id = ? in place of WHERE id = ?
close_debt_by_debtor(rows, debt_id) == {d \in rows : d.debtor_id # debt_id}

close_debt(rows, debt_id) == {d \in rows : d.id # debt_id}

\* delete_debtor: DELETE FROM debtors; the debts follow only when the
\* connection enforces foreign keys.  Returns [debtors, debts].
delete_debtor(drows, rows, debtor_id) ==
    [debtors |-> {d \in drows : d.id # debtor_id},
     debts |-> IF foreign_keys THEN {d \in rows : d.debtor_id # debtor_id}
               ELSE rows]

update_debtor_payment_date(rows, debtor_id, payment_date) ==
    {IF d.id = debtor_id THEN [d EXCEPT !.payment_date = Some(payment_date)]
     ELSE d : d \in rows}

update_debtor_payment_amount(rows, debtor_id, payment_amount) ==
    {IF d.id = debtor_id THEN [d EXCEPT !.payment_amount = Some(payment_amount)]
     ELSE d : d \in rows}

\* clear_debtor_payment_date with SET payment_date = NULL, payment_amount = NULL
clear_debtor_payment_date_clears_both(rows, debtor_id) ==
    {IF d.id = debtor_id THEN [d EXCEPT !.payment_date = NULL, !.payment_amount = NULL]
     ELSE d : d \in rows}

clear_debtor_payment_date(rows, debtor_id) ==
    {IF d.id = debtor_id THEN [d EXCEPT !.payment_date = NULL] ELSE d : d \in rows}

\* clear_debtor_payment_amount without its WHERE id = ? clause
clear_debtor_payment_amount_all(rows, debtor_id) ==
    {[d EXCEPT !.payment_amount = NULL] : d \in rows}

clear_debtor_payment_amount(rows, debtor_id) ==
    {IF d.id = debtor_id THEN [d EXCEPT !.payment_amount = NULL] ELSE d : d \in rows}

(* ------------------------------ export --------------------------------- *)
RECURSIVE DigitsText(_)
\* str(n) of a natural number
DigitsText(n) ==
    IF n < 10 THEN <<Digits[n + 1]>>
    ELSE DigitsText(n \div 10) \o <<Digits[(n % 10) + 1]>>

\* "%02d"
TwoDigits(n) == IF n < 10 THEN <<"0">> \o DigitsText(n) ELSE DigitsText(n)

\* f"{amount:.2f}": the amount (in thousandths) rounded to hundredths.  A
\* final 5 is a tie only in decimal, the float decides it by its binary
\* expansion; the amounts the texts of the model produce never end in 5.
Format2(amount) ==
    LET a == IF amount < 0 THEN 0 - amount ELSE amount
        q == a \div 10
        r == a % 10
        hundredths == IF r > 5 \/ (r = 5 /\ q % 2 = 1) THEN q + 1 ELSE q
    IN (IF amount < 0 THEN <<"-">> ELSE <<>>)
           \o DigitsText(hundredths \div 100) \o <<".">>
           \o TwoDigits(hundredths % 100)

\* payment_date.strftime("%d.%m.%Y")
FormatDate(date) ==
    TwoDigits(date.day) \o <<".">> \o TwoDigits(date.month) \o <<".">>
        \o DigitsText(date.year)

\* the total taken from the first debt alone
SumAmounts_first(list) == IF list = <<>> THEN 0 ELSE list[1].amount

RECURSIVE SumAmounts(_)
\* sum(debt["amount"] for debt in debts)
SumAmounts(list) ==
    IF list = <<>> THEN 0 ELSE list[1].amount + SumAmounts(Tail(list))

\* the header row (the source writes the six titles in Russian)
CsvHeader ==
    <<"Debtor Name", "Total Debt", "Payment Date", "Payment Amount",
      "Debt Reason", "Debt Amount">>

\* the rows generate_csv writes for one debtor
CsvRows(debtor, rows) ==
    LET list == list_debts(rows, debtor.id)
        total_debt == SumAmounts(list)
        payment_date_str ==
            IF debtor.payment_date # NULL THEN FormatDate(debtor.payment_date[1])
            ELSE <<>>
        payment_amount_str ==
            IF debtor.payment_amount # NULL /\ debtor.payment_amount[1] # 0
            THEN Format2(debtor.payment_amount[1]) ELSE <<>>
    IN IF list # <<>>
       THEN [i \in DOMAIN list |->
                <<debtor.name, Format2(total_debt), payment_date_str,
                  payment_amount_str, list[i].reason, Format2(list[i].amount)>>]
       ELSE << <<debtor.name, Format2(total_debt), payment_date_str,
                 payment_amount_str, <<>>, <<"0", ".", "0", "0">> >> >>

RECURSIVE CsvBody(_, _)
\* for debtor in debtors: ...
CsvBody(list, rows) ==
    IF list = <<>> THEN <<>>
    ELSE CsvRows(list[1], rows) \o CsvBody(Tail(list), rows)

\* generate_csv: <<>> for None, else <<document>>, the document being the
\* sequence of the rows written, header first
generate_csv(drows, rows, chat_id) ==
    LET list == list_debtors(drows, chat_id)
    IN IF list = <<>> THEN NULL
       ELSE Some(<<CsvHeader>> \o CsvBody(list, rows))

(* --------------------------- program state ----------------------------- *)
VARIABLES
    debtors,          \* table debtors: a set of rows
    debts,            \* table debts: a set of rows
    seq_debtors,      \* sqlite_sequence of debtors (last AUTOINCREMENT id)
    seq_debts,        \* sqlite_sequence of debts
    user_states,      \* dict chat_id -> state
    current_debtors,  \* dict chat_id -> debtor in focus
    selected_debts,   \* dict chat_id -> debt in focus
    pc,               \* <<>>, or <<[chat, debt]>> inside the repayment handler
                      \* between update_debt_amount(id, 0) and close_debt(id)
    last_reset        \* history: the clear_user_state call of the last handler
                      \* that changed the state, <<>> if it made none

vars == <<debtors, debts, seq_debtors, seq_debts,
          user_states, current_debtors, selected_debts, pc, last_reset>>

store == <<debtors, debts, seq_debtors, seq_debts>>

\* user_states.get(chat_id, STATE_IDLE)
StateOf(us, chat_id) == IF chat_id \in DOMAIN us THEN us[chat_id] ELSE STATE_IDLE

\* what the handlers read of a current_debtors entry: ["id"] and ["name"]
\* (the payment fields of the cached dict are never read)
Focus(debtor) == [id |-> debtor.id, name |-> debtor.name]

\* the three dicts as a handler sees them when it starts
Session ==
    [us |-> user_states, cd |-> current_debtors, sd |-> selected_debts,
     reset |-> NULL]

SetSession(s) ==
    /\ user_states' = s.us
    /\ current_debtors' = s.cd
    /\ selected_debts' = s.sd
    /\ last_reset' = s.reset

\* a handler that changes the dicts without calling clear_user_state
NoReset == last_reset' = NULL

\* dict.get(k): <<value>> or <<>>
Lookup(f, k) == IF k \in DOMAIN f THEN Some(f[k]) ELSE NULL

\* clear_user_state with the commented-out line 89 restored
clear_user_state_drops_debtor(s, chat_id) ==
    [s EXCEPT !.us = Pop(s.us, chat_id), !.cd = Pop(s.cd, chat_id),
              !.sd = Pop(s.sd, chat_id)]

\* clear_user_state with user_states.clear() and selected_debts.clear()
clear_user_state_all(s, chat_id) ==
    [s EXCEPT !.us = <<>>, !.sd = <<>>]

\* clear_user_state without line 90
clear_user_state_keeps_debt(s, chat_id) ==
    [s EXCEPT !.us = Pop(s.us, chat_id)]

clear_user_state(s, chat_id) ==
    [s EXCEPT !.us = Pop(s.us, chat_id), !.sd = Pop(s.sd, chat_id)]

\* a call of clear_user_state, with what the call found and left recorded in
\* the history variable
Reset(s, chat_id) ==
    LET r == clear_user_state(s, chat_id)
    IN [r EXCEPT !.reset =
            Some([chat |-> chat_id,
                  had_state |-> chat_id \in DOMAIN s.us,
                  had_debt |-> chat_id \in DOMAIN s.sd,
                  focus_before |-> Lookup(s.cd, chat_id),
                  state_after |-> Lookup(r.us, chat_id),
                  debt_after |-> Lookup(r.sd, chat_id),
                  focus_after |-> Lookup(r.cd, chat_id)])]

\* show_debtor_details that forgets the current debtor when the debtor to
\* render is gone
show_debtor_details_forgets(s, rows, chat_id, debtor_id) ==
    LET debtor == get_debtor_by_id(rows, debtor_id)
    IN IF debtor = NULL THEN [s EXCEPT !.cd = Pop(s.cd, chat_id)]
       ELSE [s EXCEPT !.cd = Put(s.cd, chat_id, Focus(debtor[1]))]

\* show_debtor_details, as far as it changes state: the debtor it renders
\* becomes the chat's current debtor; a vanished debtor changes nothing
show_debtor_details(s, rows, chat_id, debtor_id) ==
    LET debtor == get_debtor_by_id(rows, debtor_id)
    IN IF debtor = NULL THEN s
       ELSE [s EXCEPT !.cd = Put(s.cd, chat_id, Focus(debtor[1]))]

Init ==
    /\ debtors = {}
    /\ debts = {}
    /\ seq_debtors = 0
    /\ seq_debts = 0
    /\ user_states = <<>>
    /\ current_debtors = <<>>
    /\ selected_debts = <<>>
    /\ pc = NULL
    /\ last_reset = NULL

(* ------------------------------ commands ------------------------------- *)
Start(chat_id) ==
    /\ pc = NULL
    /\ SetSession(Reset(Session, chat_id))
    /\ UNCHANGED <<store, pc>>

\* add without the assignment of STATE_ADDING_DEBTOR_NAME
Add_without_state(chat_id) ==
    /\ pc = NULL
    /\ SetSession(Reset(Session, chat_id))
    /\ UNCHANGED <<store, pc>>

Add(chat_id) ==
    /\ pc = NULL
    /\ LET s == Reset(Session, chat_id)
       IN SetSession([s EXCEPT !.us = Put(s.us, chat_id, STATE_ADDING_DEBTOR_NAME)])
    /\ UNCHANGED <<store, pc>>

Debts(chat_id) ==
    /\ pc = NULL
    /\ SetSession(Reset(Session, chat_id))
    /\ UNCHANGED <<store, pc>>

HelpCommand(chat_id) ==
    /\ pc = NULL
    /\ SetSession(Reset(Session, chat_id))
    /\ UNCHANGED <<store, pc>>

ExportCsv(chat_id) ==
    /\ pc = NULL
    /\ SetSession(Reset(Session, chat_id))
    /\ UNCHANGED <<store, pc>>

(* --------------------------- handle_message ---------------------------- *)
MsgAddingDebtorName(chat_id, text) ==
    /\ pc = NULL
    /\ StateOf(user_states, chat_id) = STATE_ADDING_DEBTOR_NAME
    /\ LET r == add_debtor(debtors, seq_debtors, text, chat_id)
       IN IF ~r.is_new
          THEN UNCHANGED vars
          ELSE /\ seq_debtors < MaxDebtors
               /\ debtors' = r.debtors
               /\ seq_debtors' = r.seq
               /\ current_debtors' = Put(current_debtors, chat_id, Focus(r.debtor))
               /\ user_states' = Put(user_states, chat_id, STATE_ADDING_DEBT_REASON)
               /\ NoReset
               /\ UNCHANGED <<debts, seq_debts, selected_debts, pc>>

MsgAddingDebtReason(chat_id, text) ==
    /\ pc = NULL
    /\ StateOf(user_states, chat_id) = STATE_ADDING_DEBT_REASON
    /\ IF chat_id \notin DOMAIN current_debtors
       THEN UNCHANGED vars     \* KeyError
       ELSE /\ selected_debts' =
                   Put(selected_debts, chat_id,
                       [debtor_id |-> current_debtors[chat_id].id, reason |-> text])
            /\ user_states' = Put(user_states, chat_id, STATE_ADDING_DEBT_AMOUNT)
            /\ NoReset
            /\ UNCHANGED <<store, current_debtors, pc>>

MsgAddingDebtAmount(chat_id, text) ==
    /\ pc = NULL
    /\ StateOf(user_states, chat_id) = STATE_ADDING_DEBT_AMOUNT
    /\ LET amount == ParseAmount(text)
       IN IF amount = NULL
          THEN UNCHANGED vars
          ELSE IF \/ chat_id \notin DOMAIN current_debtors
                  \/ chat_id \notin DOMAIN selected_debts
                  \/ "reason" \notin DOMAIN selected_debts[chat_id]
          THEN UNCHANGED vars     \* KeyError
          ELSE IF /\ foreign_keys
                  /\ get_debtor_by_id(debtors, current_debtors[chat_id].id) = NULL
          THEN UNCHANGED vars     \* IntegrityError
          ELSE /\ seq_debts < MaxDebts
               /\ LET r == add_debt(debts, seq_debts, current_debtors[chat_id].id,
                                    amount[1], selected_debts[chat_id].reason)
                  IN /\ debts' = r.debts
                     /\ seq_debts' = r.seq
               /\ SetSession(Reset(Session, chat_id))
               /\ UNCHANGED <<debtors, seq_debtors, pc>>

MsgEditingAmount(chat_id, text) ==
    /\ pc = NULL
    /\ StateOf(user_states, chat_id) = STATE_EDITING_AMOUNT
    /\ LET amount == ParseAmount(text)
       IN IF amount = NULL
          THEN UNCHANGED vars
          ELSE IF \/ chat_id \notin DOMAIN selected_debts
                  \/ "id" \notin DOMAIN selected_debts[chat_id]
          THEN UNCHANGED vars     \* KeyError
          ELSE /\ debts' = update_debt_amount(debts, selected_debts[chat_id].id, amount[1])
               /\ IF chat_id \notin DOMAIN current_debtors
                  THEN /\ NoReset     \* KeyError after the update
                       /\ UNCHANGED <<user_states, current_debtors, selected_debts>>
                  ELSE SetSession(Reset(
                           show_debtor_details(Session, debtors, chat_id,
                                               current_debtors[chat_id].id),
                           chat_id))
               /\ UNCHANGED <<debtors, seq_debtors, seq_debts, pc>>

MsgEditingReason(chat_id, text) ==
    /\ pc = NULL
    /\ StateOf(user_states, chat_id) = STATE_EDITING_REASON
    /\ IF \/ chat_id \notin DOMAIN selected_debts
          \/ "id" \notin DOMAIN selected_debts[chat_id]
       THEN UNCHANGED vars     \* KeyError
       ELSE /\ debts' = update_debt_reason(debts, selected_debts[chat_id].id, text)
            /\ IF chat_id \notin DOMAIN current_debtors
               THEN /\ NoReset     \* KeyError after the update
                    /\ UNCHANGED <<user_states, current_debtors, selected_debts>>
               ELSE SetSession(Reset(
                        show_debtor_details(Session, debtors, chat_id,
                                            current_debtors[chat_id].id),
                        chat_id))
            /\ UNCHANGED <<debtors, seq_debtors, seq_debts, pc>>

\* STATE_SUBTRACTING_FROM_DEBT up to and including update_debt_amount; a
\* partial repayment also runs the rest of the branch
MsgSubtractingFromDebt(chat_id, text) ==
    /\ pc = NULL
    /\ StateOf(user_states, chat_id) = STATE_SUBTRACTING_FROM_DEBT
    /\ LET amount_to_subtract == ParseAmount(text)
       IN IF amount_to_subtract = NULL
          THEN UNCHANGED vars
          ELSE IF \/ chat_id \notin DOMAIN selected_debts
                  \/ {"id", "amount", "debtor_id"} \ DOMAIN selected_debts[chat_id] # {}
          THEN UNCHANGED vars     \* KeyError
          ELSE LET debt == selected_debts[chat_id]
                   new_amount == debt.amount - amount_to_subtract[1]
               IN IF amount_to_subtract[1] > debt.amount
                  THEN UNCHANGED vars
                  ELSE /\ debts' = update_debt_amount(debts, debt.id, new_amount)
                       /\ IF new_amount = 0
                          THEN /\ pc' = Some([chat |-> chat_id, debt |-> debt])
                               /\ NoReset
                               /\ UNCHANGED <<user_states, current_debtors,
                                              selected_debts>>
                          ELSE /\ SetSession(Reset(
                                      show_debtor_details(Session, debtors, chat_id,
                                                          debt.debtor_id),
                                      chat_id))
                               /\ pc' = pc
                       /\ UNCHANGED <<debtors, seq_debtors, seq_debts>>

\* the rest of the branch after update_debt_amount(id, 0): close_debt,
\* show_debtor_details, clear_user_state
SubtractClose ==
    /\ pc # NULL
    /\ debts' = close_debt(debts, pc[1].debt.id)
    /\ SetSession(Reset(
           show_debtor_details(Session, debtors, pc[1].chat, pc[1].debt.debtor_id),
           pc[1].chat))
    /\ pc' = NULL
    /\ UNCHANGED <<debtors, seq_debtors, seq_debts>>

\* STATE_SETTING_PAYMENT_DATE and STATE_EDITING_PAYMENT_DATE run the same code
PaymentDateText(chat_id, text) ==
    LET payment_date == ParseDate(text)
    IN IF payment_date = NULL
       THEN UNCHANGED vars
       ELSE IF chat_id \notin DOMAIN current_debtors
       THEN UNCHANGED vars     \* KeyError
       ELSE LET debtor_id == current_debtors[chat_id].id
                rows == update_debtor_payment_date(debtors, debtor_id, payment_date[1])
            IN /\ debtors' = rows
               /\ SetSession(Reset(
                      show_debtor_details(Session, rows, chat_id, debtor_id), chat_id))
               /\ UNCHANGED <<debts, seq_debtors, seq_debts, pc>>

\* STATE_SETTING_PAYMENT_AMOUNT and STATE_EDITING_PAYMENT_AMOUNT likewise
PaymentAmountText(chat_id, text) ==
    LET amount == ParseAmount(text)
    IN IF amount = NULL
       THEN UNCHANGED vars
       ELSE IF chat_id \notin DOMAIN current_debtors
       THEN UNCHANGED vars     \* KeyError
       ELSE LET debtor_id == current_debtors[chat_id].id
                rows == update_debtor_payment_amount(debtors, debtor_id, amount[1])
            IN /\ debtors' = rows
               /\ SetSession(Reset(
                      show_debtor_details(Session, rows, chat_id, debtor_id), chat_id))
               /\ UNCHANGED <<debts, seq_debtors, seq_debts, pc>>

MsgSettingPaymentDate(chat_id, text) ==
    /\ pc = NULL
    /\ StateOf(user_states, chat_id) = STATE_SETTING_PAYMENT_DATE
    /\ PaymentDateText(chat_id, text)

MsgSettingPaymentAmount(chat_id, text) ==
    /\ pc = NULL
    /\ StateOf(user_states, chat_id) = STATE_SETTING_PAYMENT_AMOUNT
    /\ PaymentAmountText(chat_id, text)

MsgEditingPaymentDate(chat_id, text) ==
    /\ pc = NULL
    /\ StateOf(user_states, chat_id) = STATE_EDITING_PAYMENT_DATE
    /\ PaymentDateText(chat_id, text)

MsgEditingPaymentAmount(chat_id, text) ==
    /\ pc = NULL
    /\ StateOf(user_states, chat_id) = STATE_EDITING_PAYMENT_AMOUNT
    /\ PaymentAmountText(chat_id, text)

\* the states no elif of handle_message names
NoTextStates ==
    {STATE_IDLE, STATE_EDITING_CHOOSE_DEBT, STATE_EDITING_CHOOSE_WHAT_TO_EDIT,
     STATE_CONFIRMING_CLOSE_DEBT, STATE_CONFIRMING_DELETE_DEBTOR}

\* the else branch with the current debtor popped as well
MsgOther_drops_debtor(chat_id, text) ==
    /\ pc = NULL
    /\ StateOf(user_states, chat_id) \in NoTextStates
    /\ SetSession(Reset([Session EXCEPT !.cd = Pop(current_debtors, chat_id)],
                        chat_id))
    /\ UNCHANGED <<store, pc>>

\* the else branch: the usage hint
MsgOther(chat_id, text) ==
    /\ pc = NULL
    /\ StateOf(user_states, chat_id) \in NoTextStates
    /\ SetSession(Reset(Session, chat_id))
    /\ UNCHANGED <<store, pc>>

(* ------------------------ handle_callback_query ------------------------ *)
CbSelectDebtor(chat_id, debtor_id) ==
    /\ pc = NULL
    /\ LET debtor == get_debtor_by_id(debtors, debtor_id)
       IN IF debtor = NULL
          THEN SetSession(Reset(Session, chat_id))
          ELSE SetSession(show_debtor_details(
                   Reset(
                       [Session EXCEPT !.cd = Put(current_debtors, chat_id,
                                                  Focus(debtor[1]))],
                       chat_id),
                   debtors, chat_id, debtor_id))
    /\ UNCHANGED <<store, pc>>

CbCloseDebt(chat_id, debt_id) ==
    /\ pc = NULL
    /\ LET debt == get_debt_by_id(debts, debt_id)
       IN IF debt = NULL
          THEN UNCHANGED <<user_states, current_debtors, selected_debts, last_reset>>
          ELSE /\ NoReset
               /\ selected_debts' = Put(selected_debts, chat_id, debt[1])
               /\ user_states' = Put(user_states, chat_id, STATE_CONFIRMING_CLOSE_DEBT)
               /\ UNCHANGED current_debtors
    /\ UNCHANGED <<store, pc>>

CbConfirmClose(chat_id, debt_id) ==
    /\ pc = NULL
    /\ debts' = close_debt(debts, debt_id)
    /\ SetSession(Reset(
           IF chat_id \in DOMAIN current_debtors
           THEN show_debtor_details(Session, debtors, chat_id,
                                    current_debtors[chat_id].id)
           ELSE Session,
           chat_id))
    /\ UNCHANGED <<debtors, seq_debtors, seq_debts, pc>>

CbCancelOperation(chat_id) ==
    /\ pc = NULL
    /\ SetSession(Reset(
           IF chat_id \in DOMAIN current_debtors
           THEN show_debtor_details(Session, debtors, chat_id,
                                    current_debtors[chat_id].id)
           ELSE Session,
           chat_id))
    /\ UNCHANGED <<store, pc>>

CbEditDebt(chat_id, debt_id) ==
    /\ pc = NULL
    /\ LET debt == get_debt_by_id(debts, debt_id)
       IN IF debt = NULL
          THEN UNCHANGED <<user_states, current_debtors, selected_debts, last_reset>>
          ELSE /\ NoReset
               /\ selected_debts' = Put(selected_debts, chat_id, debt[1])
               /\ user_states' =
                      Put(user_states, chat_id, STATE_EDITING_CHOOSE_WHAT_TO_EDIT)
               /\ UNCHANGED current_debtors
    /\ UNCHANGED <<store, pc>>

\* edit_amount without the assignment of selected_debts[chat_id]
CbEditAmount_forgets_debt(chat_id, debt_id) ==
    /\ pc = NULL
    /\ user_states' = Put(user_states, chat_id, STATE_EDITING_AMOUNT)
    /\ NoReset
    /\ UNCHANGED <<store, current_debtors, selected_debts, pc>>

CbEditAmount(chat_id, debt_id) ==
    /\ pc = NULL
    /\ selected_debts' = Put(selected_debts, chat_id, [id |-> debt_id])
    /\ user_states' = Put(user_states, chat_id, STATE_EDITING_AMOUNT)
    /\ NoReset
    /\ UNCHANGED <<store, current_debtors, pc>>

CbEditReason(chat_id, debt_id) ==
    /\ pc = NULL
    /\ selected_debts' = Put(selected_debts, chat_id, [id |-> debt_id])
    /\ user_states' = Put(user_states, chat_id, STATE_EDITING_REASON)
    /\ NoReset
    /\ UNCHANGED <<store, current_debtors, pc>>

CbSubtractFromDebt(chat_id, debt_id) ==
    /\ pc = NULL
    /\ LET debt == get_debt_by_id(debts, debt_id)
       IN IF debt = NULL
          THEN UNCHANGED <<user_states, current_debtors, selected_debts, last_reset>>
          ELSE /\ NoReset
               /\ selected_debts' = Put(selected_debts, chat_id, debt[1])
               /\ user_states' = Put(user_states, chat_id, STATE_SUBTRACTING_FROM_DEBT)
               /\ UNCHANGED current_debtors
    /\ UNCHANGED <<store, pc>>

\* the state is assigned before the prompt reads current_debtors[chat_id]
CbAddDebtToExisting(chat_id) ==
    /\ pc = NULL
    /\ user_states' = Put(user_states, chat_id, STATE_ADDING_DEBT_REASON)
    /\ NoReset
    /\ UNCHANGED <<store, current_debtors, selected_debts, pc>>

CbDeleteDebtor(chat_id) ==
    /\ pc = NULL
    /\ user_states' = Put(user_states, chat_id, STATE_CONFIRMING_DELETE_DEBTOR)
    /\ NoReset
    /\ UNCHANGED <<store, current_debtors, selected_debts, pc>>

CbConfirmDeleteDebtor(chat_id) ==
    /\ pc = NULL
    /\ IF chat_id \notin DOMAIN current_debtors
       THEN UNCHANGED vars     \* KeyError
       ELSE /\ LET r == delete_debtor(debtors, debts, current_debtors[chat_id].id)
               IN /\ debtors' = r.debtors
                  /\ debts' = r.debts
            /\ SetSession(Reset(
                   [Session EXCEPT !.cd = Pop(current_debtors, chat_id)], chat_id))
            /\ UNCHANGED <<seq_debtors, seq_debts, pc>>

CbSetPaymentDate(chat_id) ==
    /\ pc = NULL
    /\ user_states' = Put(user_states, chat_id, STATE_SETTING_PAYMENT_DATE)
    /\ NoReset
    /\ UNCHANGED <<store, current_debtors, selected_debts, pc>>

CbSetPaymentAmount(chat_id) ==
    /\ pc = NULL
    /\ user_states' = Put(user_states, chat_id, STATE_SETTING_PAYMENT_AMOUNT)
    /\ NoReset
    /\ UNCHANGED <<store, current_debtors, selected_debts, pc>>

CbClearPaymentDate(chat_id) ==
    /\ pc = NULL
    /\ IF chat_id \in DOMAIN current_debtors
       THEN LET rows == clear_debtor_payment_date(debtors, current_debtors[chat_id].id)
            IN /\ debtors' = rows
               /\ SetSession(Reset(
                      show_debtor_details(Session, rows, chat_id,
                                          current_debtors[chat_id].id),
                      chat_id))
       ELSE /\ debtors' = debtors
            /\ SetSession(Reset(Session, chat_id))
    /\ UNCHANGED <<debts, seq_debtors, seq_debts, pc>>

CbClearPaymentAmount(chat_id) ==
    /\ pc = NULL
    /\ IF chat_id \in DOMAIN current_debtors
       THEN LET rows == clear_debtor_payment_amount(debtors, current_debtors[chat_id].id)
            IN /\ debtors' = rows
               /\ SetSession(Reset(
                      show_debtor_details(Session, rows, chat_id,
                                          current_debtors[chat_id].id),
                      chat_id))
       ELSE /\ debtors' = debtors
            /\ SetSession(Reset(Session, chat_id))
    /\ UNCHANGED <<debts, seq_debtors, seq_debts, pc>>

CbEditPaymentDate(chat_id) ==
    /\ pc = NULL
    /\ user_states' = Put(user_states, chat_id, STATE_EDITING_PAYMENT_DATE)
    /\ NoReset
    /\ UNCHANGED <<store, current_debtors, selected_debts, pc>>

CbEditPaymentAmount(chat_id) ==
    /\ pc = NULL
    /\ user_states' = Put(user_states, chat_id, STATE_EDITING_PAYMENT_AMOUNT)
    /\ NoReset
    /\ UNCHANGED <<store, current_debtors, selected_debts, pc>>

(* --------------------------- specification ----------------------------- *)
Command(chat_id) ==
    \/ Start(chat_id)
    \/ Add(chat_id)
    \/ Debts(chat_id)
    \/ HelpCommand(chat_id)
    \/ ExportCsv(chat_id)

Callback(chat_id) ==
    \/ \E debtor_id \in DebtorIds : CbSelectDebtor(chat_id, debtor_id)
    \/ \E debt_id \in DebtIds : CbCloseDebt(chat_id, debt_id)
    \/ \E debt_id \in DebtIds : CbConfirmClose(chat_id, debt_id)
    \/ CbCancelOperation(chat_id)
    \/ \E debt_id \in DebtIds : CbEditDebt(chat_id, debt_id)
    \/ \E debt_id \in DebtIds : CbEditAmount(chat_id, debt_id)
    \/ \E debt_id \in DebtIds : CbEditReason(chat_id, debt_id)
    \/ \E debt_id \in DebtIds : CbSubtractFromDebt(chat_id, debt_id)
    \/ CbAddDebtToExisting(chat_id)
    \/ CbDeleteDebtor(chat_id)
    \/ CbConfirmDeleteDebtor(chat_id)
    \/ CbSetPaymentDate(chat_id)
    \/ CbSetPaymentAmount(chat_id)
    \/ CbClearPaymentDate(chat_id)
    \/ CbClearPaymentAmount(chat_id)
    \/ CbEditPaymentDate(chat_id)
    \/ CbEditPaymentAmount(chat_id)

\* Spec: one chat sends every command, text and button; every flow can
\* complete; the debts take the amounts 500 and 200 and one reason.
Message(chat_id) ==
    \/ \E text \in NameTexts : MsgAddingDebtorName(chat_id, text)
    \/ \E text \in {T_lunch} : MsgAddingDebtReason(chat_id, text)
    \/ \E text \in RejectedAmountTexts \cup {T_500} : MsgAddingDebtAmount(chat_id, text)
    \/ \E text \in RejectedAmountTexts \cup {T_200} : MsgEditingAmount(chat_id, text)
    \/ \E text \in {T_lunch} : MsgEditingReason(chat_id, text)
    \/ \E text \in RejectedAmountTexts \cup {T_300, T_500} :
           MsgSubtractingFromDebt(chat_id, text)
    \/ \E text \in DateTexts : MsgSettingPaymentDate(chat_id, text)
    \/ \E text \in PaymentAmountTexts : MsgSettingPaymentAmount(chat_id, text)
    \/ \E text \in DateTexts : MsgEditingPaymentDate(chat_id, text)
    \/ \E text \in PaymentAmountTexts : MsgEditingPaymentAmount(chat_id, text)
    \/ \E text \in StrayTexts : MsgOther(chat_id, text)

Next ==
    \/ \E chat_id \in {1} : Command(chat_id)
    \/ \E chat_id \in {1} : Message(chat_id)
    \/ \E chat_id \in {1} : Callback(chat_id)
    \/ SubtractClose

Spec == Init /\ [][Next]_vars

\* SpecDebts: one chat, every handler; two reasons and the amounts 500, 300,
\* 200, 100; the payment texts are the rejected ones only.
MessageDebts(chat_id) ==
    \/ \E text \in NameTexts : MsgAddingDebtorName(chat_id, text)
    \/ \E text \in ReasonTexts : MsgAddingDebtReason(chat_id, text)
    \/ \E text \in RejectedAmountTexts \cup {T_500} : MsgAddingDebtAmount(chat_id, text)
    \/ \E text \in RejectedAmountTexts \cup {T_300} : MsgEditingAmount(chat_id, text)
    \/ \E text \in ReasonTexts : MsgEditingReason(chat_id, text)
    \/ \E text \in RejectedAmountTexts \cup {T_200, T_300, T_500} :
           MsgSubtractingFromDebt(chat_id, text)
    \/ \E text \in RejectedDateTexts : MsgSettingPaymentDate(chat_id, text)
    \/ \E text \in RejectedAmountTexts : MsgSettingPaymentAmount(chat_id, text)
    \/ \E text \in RejectedDateTexts : MsgEditingPaymentDate(chat_id, text)
    \/ \E text \in RejectedAmountTexts : MsgEditingPaymentAmount(chat_id, text)
    \/ \E text \in StrayTexts : MsgOther(chat_id, text)

NextDebts ==
    \/ \E chat_id \in {1} : Command(chat_id)
    \/ \E chat_id \in {1} : MessageDebts(chat_id)
    \/ \E chat_id \in {1} : Callback(chat_id)
    \/ SubtractClose

SpecDebts == Init /\ [][NextDebts]_vars

\* SpecTwoChats: two chats that add debtors and debts, select and delete
\* debtors, and edit and repay debts; a button may carry any id.
TwoChats(chat_id) ==
    \/ Start(chat_id)
    \/ Add(chat_id)
    \/ \E text \in {T_Ivan} : MsgAddingDebtorName(chat_id, text)
    \/ \E text \in {T_lunch} : MsgAddingDebtReason(chat_id, text)
    \/ \E text \in RejectedAmountTexts \cup {T_500} : MsgAddingDebtAmount(chat_id, text)
    \/ \E text \in RejectedAmountTexts \cup {T_300} : MsgEditingAmount(chat_id, text)
    \/ \E text \in RejectedAmountTexts \cup {T_300, T_500} :
           MsgSubtractingFromDebt(chat_id, text)
    \/ \E debtor_id \in DebtorIds : CbSelectDebtor(chat_id, debtor_id)
    \/ \E debt_id \in DebtIds : CbEditAmount(chat_id, debt_id)
    \/ \E debt_id \in DebtIds : CbSubtractFromDebt(chat_id, debt_id)
    \/ CbConfirmDeleteDebtor(chat_id)

NextTwoChats ==
    \/ \E chat_id \in Chats : TwoChats(chat_id)
    \/ SubtractClose

SpecTwoChats == Init /\ [][NextTwoChats]_vars

\* SpecCsv: two chats add debtors and debts of 500 and of 0.004, delete
\* debtors and export; the ledgers the export claims are about.
Csv(chat_id) ==
    \/ Add(chat_id)
    \/ ExportCsv(chat_id)
    \/ \E text \in NameTexts : MsgAddingDebtorName(chat_id, text)
    \/ \E text \in {T_lunch} : MsgAddingDebtReason(chat_id, text)
    \/ \E text \in {T_0004, T_500} : MsgAddingDebtAmount(chat_id, text)
    \/ CbAddDebtToExisting(chat_id)
    \/ CbConfirmDeleteDebtor(chat_id)

NextCsv == \E chat_id \in Chats : Csv(chat_id)

SpecCsv == Init /\ [][NextCsv]_vars

\* SpecSessions: chat 1 sends every command, text and button while chat 2
\* selects a debtor, opens the editing of a debt and sends /start.
MessageSessions(chat_id) ==
    \/ \E text \in {T_Ivan} : MsgAddingDebtorName(chat_id, text)
    \/ \E text \in {T_lunch} : MsgAddingDebtReason(chat_id, text)
    \/ \E text \in {T_500} : MsgAddingDebtAmount(chat_id, text)
    \/ \E text \in {T_200} : MsgEditingAmount(chat_id, text)
    \/ \E text \in {T_lunch} : MsgEditingReason(chat_id, text)
    \/ \E text \in {T_500} : MsgSubtractingFromDebt(chat_id, text)
    \/ \E text \in {T_date_yy} : MsgSettingPaymentDate(chat_id, text)
    \/ \E text \in {T_200} : MsgSettingPaymentAmount(chat_id, text)
    \/ \E text \in {T_date_yy} : MsgEditingPaymentDate(chat_id, text)
    \/ \E text \in {T_200} : MsgEditingPaymentAmount(chat_id, text)
    \/ \E text \in StrayTexts : MsgOther(chat_id, text)

OtherChat(chat_id) ==
    \/ Start(chat_id)
    \/ \E debtor_id \in {1} : CbSelectDebtor(chat_id, debtor_id)
    \/ \E debt_id \in {1} : CbEditAmount(chat_id, debt_id)

NextSessions ==
    \/ \E chat_id \in {1} : Command(chat_id)
    \/ \E chat_id \in {1} : MessageSessions(chat_id)
    \/ \E chat_id \in {1} : Callback(chat_id)
    \/ \E chat_id \in {2} : OtherChat(chat_id)
    \/ SubtractClose

SpecSessions == Init /\ [][NextSessions]_vars

(* --------------------------- storage faults ---------------------------- *)
\* No handler catches sqlite3.Error: when a store call raises, the handler
\* ends there and what it wrote to the three dicts before the call stays.

\* /debts: clear_user_state (line 531), then list_debtors raises (line 533)
DebtsFault(chat_id) ==
    /\ pc = NULL
    /\ SetSession(Reset(Session, chat_id))
    /\ UNCHANGED <<store, pc>>

\* /exportcsv: clear_user_state (line 584), then generate_csv raises (line 586)
ExportCsvFault(chat_id) ==
    /\ pc = NULL
    /\ SetSession(Reset(Session, chat_id))
    /\ UNCHANGED <<store, pc>>

\* select_debtor:<id>: the debtor is found, made current and the state is
\* cleared (lines 877-885); then a store call of show_debtor_details raises
\* (get_debtor_by_id at line 1081)
CbSelectDebtorFault(chat_id, debtor_id) ==
    /\ pc = NULL
    /\ get_debtor_by_id(debtors, debtor_id) # NULL
    /\ SetSession(Reset(
           [Session EXCEPT !.cd = Put(current_debtors, chat_id,
                                      Focus(get_debtor_by_id(debtors, debtor_id)[1]))],
           chat_id))
    /\ UNCHANGED <<store, pc>>

\* the states whose text branch calls the store before it writes to a dict
StoreFirstStates ==
    {STATE_ADDING_DEBTOR_NAME, STATE_ADDING_DEBT_AMOUNT, STATE_EDITING_AMOUNT,
     STATE_EDITING_REASON, STATE_SUBTRACTING_FROM_DEBT,
     STATE_SETTING_PAYMENT_DATE, STATE_SETTING_PAYMENT_AMOUNT,
     STATE_EDITING_PAYMENT_DATE, STATE_EDITING_PAYMENT_AMOUNT}

\* a text whose first store call raises: nothing was written yet
MessageFault(chat_id) ==
    /\ pc = NULL
    /\ StateOf(user_states, chat_id) \in StoreFirstStates
    /\ NoReset
    /\ UNCHANGED <<store, user_states, current_debtors, selected_debts, pc>>

StorageFault(chat_id) ==
    \/ DebtsFault(chat_id)
    \/ ExportCsvFault(chat_id)
    \/ \E debtor_id \in DebtorIds : CbSelectDebtorFault(chat_id, debtor_id)
    \/ MessageFault(chat_id)

\* SpecFaults: one chat sends every command, text and button, and any store
\* call may raise.
NextFaults ==
    \/ \E chat_id \in {1} : StorageFault(chat_id)
    \/ \E chat_id \in {1} : Command(chat_id)
    \/ \E chat_id \in {1} : MessageSessions(chat_id)
    \/ \E chat_id \in {1} : Callback(chat_id)
    \/ SubtractClose

SpecFaults == Init /\ [][NextFaults]_vars

(* ------------------------------ properties ----------------------------- *)
\* the chat has no recorded state
Idle(us, chat_id) == chat_id \notin DOMAIN us

\* the chat's current debtor changes from a debtor to none or to another one
FocusMoved(chat_id) ==
    /\ chat_id \in DOMAIN current_debtors
    /\ \/ chat_id \notin DOMAIN current_debtors'
       \/ current_debtors'[chat_id].id # current_debtors[chat_id].id

\* C1: every call of clear_user_state leaves the chat without a recorded state
\* and without a selected debt, and leaves the chat's current debtor exactly as
\* the call found it.
C1_ResetKeepsDebtorFocus ==
    last_reset # NULL =>
        /\ last_reset[1].state_after = NULL
        /\ last_reset[1].debt_after = NULL
        /\ last_reset[1].focus_after = last_reset[1].focus_before

\* a reset that found a state, a selected debt and a current debtor
C1_Witness ==
    /\ last_reset # NULL
    /\ last_reset[1].had_state
    /\ last_reset[1].had_debt
    /\ last_reset[1].focus_before # NULL
    /\ last_reset[1].focus_after = last_reset[1].focus_before

\* (a) select_debtor, (b) a name text that creates a debtor, (c) the confirmed
\* deletion of the current debtor
SelectsDebtor(chat_id) ==
    \E debtor_id \in DebtorIds : CbSelectDebtor(chat_id, debtor_id)

CreatesDebtor(chat_id) ==
    /\ \E text \in Texts : MsgAddingDebtorName(chat_id, text)
    /\ seq_debtors' # seq_debtors

DeletesCurrentDebtor(chat_id) ==
    /\ CbConfirmDeleteDebtor(chat_id)
    /\ get_debtor_by_id(debtors', current_debtors[chat_id].id) = NULL

\* an accepted repayment text: the handler shows the owner of the selected
\* debt, who becomes the current debtor
RepaysDebtOfAnother(chat_id) ==
    /\ \/ \E text \in Texts : MsgSubtractingFromDebt(chat_id, text)
       \/ pc # NULL /\ pc[1].chat = chat_id /\ SubtractClose
    /\ chat_id \in DOMAIN current_debtors'
    /\ current_debtors'[chat_id].id = selected_debts[chat_id].debtor_id

AddsDebt(chat_id) ==
    /\ StateOf(user_states, chat_id) = STATE_ADDING_DEBT_AMOUNT
    /\ \E text \in AmountTexts :
           ParseAmount(text) # NULL /\ MsgAddingDebtAmount(chat_id, text)

\* C3: a positive amount text handled in STATE_ADDING_DEBT_AMOUNT leaves the
\* chat Idle, without a selected debt, and with the debtor who received the
\* new debt, the current debtor it had, as its current debtor.
C3_AddDebtKeepsDebtor ==
    [][\A chat_id \in Chats :
           AddsDebt(chat_id) =>
               /\ Idle(user_states', chat_id)
               /\ chat_id \notin DOMAIN selected_debts'
               /\ chat_id \in DOMAIN current_debtors'
               /\ current_debtors'[chat_id] = current_debtors[chat_id]
               /\ \E d \in debts' \ debts :
                      d.debtor_id = current_debtors'[chat_id].id]_vars

\* an Idle chat whose last handler reset an add-debt flow: its current debtor
\* owns the one debt of the ledger
C3_Witness ==
    \E chat_id \in DOMAIN current_debtors :
        /\ Idle(user_states, chat_id)
        /\ last_reset # NULL
        /\ last_reset[1].chat = chat_id
        /\ last_reset[1].had_debt
        /\ seq_debts = 1
        /\ \E d \in debts : d.id = 1 /\ d.debtor_id = current_debtors[chat_id].id

\* the row the accepted amount text has to insert: the next id, the chat's
\* current debtor, the amount typed and the pending reason
NewDebtRow(chat_id, text) ==
    [id |-> seq_debts + 1,
     debtor_id |-> current_debtors[chat_id].id,
     amount |-> ParseFloat(text)[1],
     reason |-> selected_debts[chat_id].reason]

\* a chat that awaits the amount has a current debtor and a pending reason
AmountAwaitedWithReason ==
    \A chat_id \in Chats :
        StateOf(user_states, chat_id) = STATE_ADDING_DEBT_AMOUNT =>
            /\ chat_id \in DOMAIN current_debtors
            /\ chat_id \in DOMAIN selected_debts
            /\ "reason" \in DOMAIN selected_debts[chat_id]

\* the pending reason is the text most recently received in
\* STATE_ADDING_DEBT_REASON: that text is stored as the pending reason, only
\* such a text brings a chat to await the amount, and the pending reason
\* stays as it is for as long as the chat awaits the amount
PendingReasonIsLastReasonText ==
    \A chat_id \in Chats :
        /\ (/\ StateOf(user_states, chat_id) = STATE_ADDING_DEBT_REASON
            /\ chat_id \in DOMAIN current_debtors) =>
               \A text \in ReasonTexts :
                   MsgAddingDebtReason(chat_id, text) =>
                       /\ StateOf(user_states', chat_id) = STATE_ADDING_DEBT_AMOUNT
                       /\ selected_debts'[chat_id].reason = text
        /\ (/\ StateOf(user_states, chat_id) # STATE_ADDING_DEBT_AMOUNT
            /\ StateOf(user_states', chat_id) = STATE_ADDING_DEBT_AMOUNT) =>
               \E text \in ReasonTexts : MsgAddingDebtReason(chat_id, text)
        /\ (/\ StateOf(user_states, chat_id) = STATE_ADDING_DEBT_AMOUNT
            /\ StateOf(user_states', chat_id) = STATE_ADDING_DEBT_AMOUNT) =>
               selected_debts'[chat_id] = selected_debts[chat_id]

\* the accepted amount text inserts NewDebtRow and nothing else changes in the
\* two tables; list_debts of the debtor then returns the row
AddDebtInsertsOneRow ==
    \A chat_id \in Chats :
        StateOf(user_states, chat_id) = STATE_ADDING_DEBT_AMOUNT =>
            \A text \in AmountTexts :
                (ParseAmount(text) # NULL /\ MsgAddingDebtAmount(chat_id, text)) =>
                    LET row == NewDebtRow(chat_id, text)
                    IN /\ \A d \in debts : d.id # row.id
                       /\ debts' = debts \cup {row}
                       /\ debtors' = debtors
                       /\ \E i \in DOMAIN list_debts(debts', row.debtor_id) :
                              list_debts(debts', row.debtor_id)[i] =
                                  [id |-> row.id, amount |-> row.amount,
                                   reason |-> row.reason]

\* C4: a positive amount text a handled in STATE_ADDING_DEBT_AMOUNT inserts
\* exactly one debt row, owned by the chat's current debtor, with amount a and
\* with the text most recently received in STATE_ADDING_DEBT_REASON as its
\* reason; list_debts of that debtor returns it; no other debt row and no
\* debtor row changes.
C4_AddDebtCreatesTheRow ==
    /\ []AmountAwaitedWithReason
    /\ [][PendingReasonIsLastReasonText]_vars
    /\ [][AddDebtInsertsOneRow]_vars

\* the second debt of the ledger was added, with another reason than the first
C4_Witness ==
    /\ last_reset # NULL
    /\ last_reset[1].had_debt
    /\ Idle(user_states, last_reset[1].chat)
    /\ \E d1, d2 \in debts :
           /\ d1.id = 1
           /\ d2.id = 2
           /\ d1.debtor_id = d2.debtor_id
           /\ d2.amount = ParseFloat(T_500)[1]
           /\ d2.reason = T_taxi
           /\ d1.reason = T_lunch

\* C5: every debt row has an amount greater than 0 in every state of the
\* store, the state between the amount update and the close of a full
\* repayment included.
C5_AmountsPositive == \A d \in debts : d.amount > 0

\* the repayment texts of a chat whose selected debt is a stored row
StoredSelectedDebt(chat_id) ==
    IF /\ StateOf(user_states, chat_id) = STATE_SUBTRACTING_FROM_DEBT
       /\ chat_id \in DOMAIN selected_debts
       /\ "id" \in DOMAIN selected_debts[chat_id]
    THEN get_debt_by_id(debts, selected_debts[chat_id].id)
    ELSE NULL

\* C6: a repayment text s handled in STATE_SUBTRACTING_FROM_DEBT for a debt
\* whose stored amount is c, 0 < s <= c: for s = c the handler goes on to
\* close the debt, after which the row is gone and the chat is Idle; for
\* s < c the row keeps its reason and owner with amount c - s and the chat is
\* Idle.
C6_RepaymentAgainstStoredAmount ==
    [][/\ \A chat_id \in Chats :
              StoredSelectedDebt(chat_id) # NULL =>
                  \A text \in AmountTexts :
                      LET s == ParseAmount(text)
                          row == StoredSelectedDebt(chat_id)[1]
                      IN (/\ s # NULL
                          /\ s[1] <= row.amount
                          /\ MsgSubtractingFromDebt(chat_id, text)) =>
                             IF s[1] = row.amount
                             THEN pc' = Some([chat |-> chat_id,
                                              debt |-> selected_debts[chat_id]])
                             ELSE /\ get_debt_by_id(debts', row.id) =
                                         Some([row EXCEPT !.amount = @ - s[1]])
                                  /\ Idle(user_states', chat_id)
       /\ (pc # NULL /\ SubtractClose) =>
              /\ get_debt_by_id(debts', pc[1].debt.id) = NULL
              /\ Idle(user_states', pc[1].chat)]_vars

\* C7: a repayment text greater than the stored amount of the debt is
\* rejected: the tables, the chat's state and its current debtor and selected
\* debt stay as they are.
C7_ExcessRepaymentRejected ==
    [][\A chat_id \in Chats :
           StoredSelectedDebt(chat_id) # NULL =>
               \A text \in AmountTexts :
                   LET s == ParseAmount(text)
                       row == StoredSelectedDebt(chat_id)[1]
                   IN (/\ s # NULL
                       /\ s[1] > row.amount
                       /\ MsgSubtractingFromDebt(chat_id, text)) =>
                          UNCHANGED <<debtors, debts, user_states,
                                      current_debtors, selected_debts, pc>>]_vars

\* C8: after the confirmed deletion of a debtor no debt row carries that
\* debtor's id.
C8_DeleteDebtorRemovesDebts ==
    [][\A chat_id \in DOMAIN current_debtors :
           CbConfirmDeleteDebtor(chat_id) =>
               \A d \in debts' : d.debtor_id # current_debtors[chat_id].id]_vars

\* C9: add_debtor called twice with the same name and chat, the pair not yet
\* in the table: the first call reports a new row, the second reports the
\* same id as not new and leaves the table as the first call left it.
C9_AddDebtorTwice ==
    \A debtor_name \in NameTexts : \A chat_id \in Chats :
        get_debtor_by_name(debtors, debtor_name, chat_id) = NULL =>
            LET first == add_debtor(debtors, seq_debtors, debtor_name, chat_id)
                second == add_debtor(first.debtors, first.seq, debtor_name, chat_id)
            IN /\ first.is_new
               /\ ~second.is_new
               /\ second.debtor.id = first.debtor.id
               /\ second.debtors = first.debtors
               /\ second.seq = first.seq

\* a chat that typed a name it already has is asked again: the debtor is in
\* the table and the chat still awaits a name
C9_Witness ==
    \E chat_id \in Chats : \E d \in debtors :
        /\ StateOf(user_states, chat_id) = STATE_ADDING_DEBTOR_NAME
        /\ d.chat_id = chat_id
        /\ LET again == add_debtor(debtors, seq_debtors, d.name, chat_id)
           IN ~again.is_new /\ again.debtor.id = d.id /\ again.debtors = debtors

\* C10: no two debtor rows share (name, chat_id); a name a chat does not have
\* yet, whether or not another chat has it, gets a new row of its own, owned
\* by the chat that entered it.
C10_UniquePerChat ==
    /\ \A d1, d2 \in debtors :
           (d1.name = d2.name /\ d1.chat_id = d2.chat_id) => d1 = d2
    /\ \A debtor_name \in NameTexts : \A chat_id \in Chats :
           get_debtor_by_name(debtors, debtor_name, chat_id) = NULL =>
               LET r == add_debtor(debtors, seq_debtors, debtor_name, chat_id)
               IN /\ r.is_new
                  /\ r.debtor.name = debtor_name
                  /\ r.debtor.chat_id = chat_id
                  /\ \A d \in debtors : d.id # r.debtor.id
                  /\ r.debtors = debtors \cup {r.debtor}

\* the same name entered in two chats: two rows, one per chat
C10_Witness ==
    \E d1, d2 \in debtors :
        /\ d1.name = d2.name
        /\ d1.chat_id = 1
        /\ d2.chat_id = 2
        /\ d1.id # d2.id

\* what a chat's session holds and what the two tables hold
session == <<user_states, current_debtors, selected_debts>>
tables == <<debtors, debts>>

\* the text handler of the five amount-awaiting states
AmountStates ==
    {STATE_ADDING_DEBT_AMOUNT, STATE_EDITING_AMOUNT, STATE_SUBTRACTING_FROM_DEBT,
     STATE_SETTING_PAYMENT_AMOUNT, STATE_EDITING_PAYMENT_AMOUNT}

HandlesAmountText(chat_id, text) ==
    \/ MsgAddingDebtAmount(chat_id, text)
    \/ MsgEditingAmount(chat_id, text)
    \/ MsgSubtractingFromDebt(chat_id, text)
    \/ MsgSettingPaymentAmount(chat_id, text)
    \/ MsgEditingPaymentAmount(chat_id, text)

\* float(text) raises, or gives a value <= 0
NotPositive(text) == ParseFloat(text) = NULL \/ ParseFloat(text)[1] <= 0
NotPositiveTexts == {text \in AmountTexts : NotPositive(text)}

\* C11: in each of the five amount-awaiting states a text that is no number
\* or a number <= 0 leaves the chat's state, current debtor and selected debt
\* and every debtor and debt row as they are.
C11_BadAmountChangesNothing ==
    [][\A chat_id \in Chats :
           StateOf(user_states, chat_id) \in AmountStates =>
               \A text \in NotPositiveTexts :
                   HandlesAmountText(chat_id, text) =>
                       UNCHANGED <<session, tables>>]_vars

\* a chat awaiting the amount of a second debt, where "abc", "-5" and "0" are
\* among the texts it may receive
C11_Witness ==
    \E chat_id \in DOMAIN selected_debts :
        /\ StateOf(user_states, chat_id) = STATE_ADDING_DEBT_AMOUNT
        /\ chat_id \in DOMAIN current_debtors
        /\ debts # {}
        /\ \E text \in NotPositiveTexts : ParseFloat(text) = NULL
        /\ \E text \in NotPositiveTexts : ParseFloat(text) = Some(0)
        /\ \E text \in NotPositiveTexts :
               ParseFloat(text) # NULL /\ ParseFloat(text)[1] < 0

ResetCommand(chat_id) ==
    Start(chat_id) \/ HelpCommand(chat_id) \/ Debts(chat_id) \/ ExportCsv(chat_id)

\* a command can be handled whenever no handler is running, and a running
\* repayment handler can finish
CommandsAlwaysHandled ==
    /\ pc = NULL =>
           \A chat_id \in Chats : ENABLED Start(chat_id) /\ ENABLED Add(chat_id)
    /\ pc # NULL => ENABLED SubtractClose

\* the step is one of a handler that called clear_user_state for the chat, as
\* each of the five commands does
ResetsChat(chat_id) ==
    last_reset' # NULL /\ last_reset'[1].chat = chat_id

CommandEffect ==
    \A chat_id \in Chats :
        ResetsChat(chat_id) =>
            /\ ResetCommand(chat_id) =>
                   /\ Idle(user_states', chat_id)
                   /\ chat_id \notin DOMAIN selected_debts'
                   /\ UNCHANGED tables
            /\ Add(chat_id) =>
                   /\ StateOf(user_states', chat_id) = STATE_ADDING_DEBTOR_NAME
                   /\ chat_id \notin DOMAIN selected_debts'
                   /\ UNCHANGED tables

\* C13: from every reachable state /start, /help, /debts and /exportcsv leave
\* the chat Idle without a selected debt, /add leaves it in
\* STATE_ADDING_DEBTOR_NAME without a selected debt, none of them changes a
\* row, and the commands can always be handled, so Idle is reachable from
\* every state.
C13_CommandsRecover ==
    /\ []CommandsAlwaysHandled
    /\ [][CommandEffect]_vars

\* /add handled in an abandoned flow that had a state and a selected debt
C13_Witness ==
    /\ last_reset # NULL
    /\ last_reset[1].had_state
    /\ last_reset[1].had_debt
    /\ StateOf(user_states, last_reset[1].chat) = STATE_ADDING_DEBTOR_NAME
    /\ last_reset[1].chat \notin DOMAIN selected_debts
    /\ debts # {}

\* Idle and the states that have no text-input step
StatesWithoutTextStep ==
    {STATE_IDLE, STATE_EDITING_CHOOSE_WHAT_TO_EDIT, STATE_CONFIRMING_CLOSE_DEBT,
     STATE_CONFIRMING_DELETE_DEBTOR}

\* C14: a text received while the chat is Idle or in a state without a
\* text-input step leaves the chat Idle, its current debtor as it was and
\* every debtor and debt row as it was.
C14_StrayTextOnlyHints ==
    [][\A chat_id \in Chats :
           StateOf(user_states, chat_id) \in StatesWithoutTextStep =>
               \A text \in StrayTexts :
                   MsgOther(chat_id, text) =>
                       /\ Idle(user_states', chat_id)
                       /\ Lookup(current_debtors', chat_id) =
                              Lookup(current_debtors, chat_id)
                       /\ UNCHANGED tables]_vars

\* a stray text was handled in a state without a text-input step, with a
\* selected debt and a current debtor, and the debts are still there
C14_Witness ==
    /\ last_reset # NULL
    /\ last_reset[1].had_state
    /\ last_reset[1].had_debt
    /\ last_reset[1].focus_before # NULL
    /\ Idle(user_states, last_reset[1].chat)
    /\ Lookup(current_debtors, last_reset[1].chat) = last_reset[1].focus_before
    /\ Cardinality(debts) = 2

\* the three steps of the close-debt flow
CloseDebtPrompt ==
    \A chat_id \in Chats : \A debt_id \in DebtIds :
        (get_debt_by_id(debts, debt_id) # NULL /\ CbCloseDebt(chat_id, debt_id)) =>
            /\ StateOf(user_states', chat_id) = STATE_CONFIRMING_CLOSE_DEBT
            /\ Lookup(selected_debts', chat_id) = get_debt_by_id(debts, debt_id)
            /\ UNCHANGED tables

CloseDebtConfirm ==
    \A chat_id \in Chats :
        StateOf(user_states, chat_id) = STATE_CONFIRMING_CLOSE_DEBT =>
            (CbConfirmClose(chat_id, selected_debts[chat_id].id) =>
                /\ debts' = {d \in debts : d.id # selected_debts[chat_id].id}
                /\ debtors' = debtors
                /\ Idle(user_states', chat_id)
                /\ chat_id \notin DOMAIN selected_debts'
                /\ Lookup(current_debtors', chat_id) =
                       Lookup(current_debtors, chat_id))

CloseDebtCancel ==
    \A chat_id \in Chats :
        StateOf(user_states, chat_id) = STATE_CONFIRMING_CLOSE_DEBT =>
            (CbCancelOperation(chat_id) =>
                /\ UNCHANGED tables
                /\ Idle(user_states', chat_id)
                /\ chat_id \notin DOMAIN selected_debts'
                /\ Lookup(current_debtors', chat_id) =
                       Lookup(current_debtors, chat_id))

\* a chat in STATE_CONFIRMING_CLOSE_DEBT has the debt to close selected
ConfirmingCloseHasDebt ==
    \A chat_id \in Chats :
        StateOf(user_states, chat_id) = STATE_CONFIRMING_CLOSE_DEBT =>
            /\ chat_id \in DOMAIN selected_debts
            /\ "id" \in DOMAIN selected_debts[chat_id]

\* C15: close_debt:<id> for an existing debt puts the chat in
\* STATE_CONFIRMING_CLOSE_DEBT with that debt selected and changes no row; the
\* following confirm_close:<id> deletes exactly that debt row, the following
\* cancel_operation changes no row; after either the chat is Idle, has no
\* selected debt and has the current debtor it had.
C15_CloseDebtFlow ==
    /\ []ConfirmingCloseHasDebt
    /\ [][CloseDebtPrompt /\ CloseDebtConfirm /\ CloseDebtCancel]_vars

\* a chat asked to confirm the closing of one of two stored debts of its
\* current debtor
C15_Witness ==
    \E chat_id \in DOMAIN selected_debts :
        /\ StateOf(user_states, chat_id) = STATE_CONFIRMING_CLOSE_DEBT
        /\ chat_id \in DOMAIN current_debtors
        /\ selected_debts[chat_id] \in debts
        /\ Cardinality(debts) = 2
        /\ \A d \in debts : d.debtor_id = current_debtors[chat_id].id

\* the steps of the delete-debtor flow
DeleteDebtorPrompt ==
    \A chat_id \in Chats :
        CbDeleteDebtor(chat_id) =>
            /\ StateOf(user_states', chat_id) = STATE_CONFIRMING_DELETE_DEBTOR
            /\ UNCHANGED tables

DeleteDebtorCancel ==
    \A chat_id \in Chats :
        StateOf(user_states, chat_id) = STATE_CONFIRMING_DELETE_DEBTOR =>
            (CbCancelOperation(chat_id) =>
                /\ UNCHANGED tables
                /\ Idle(user_states', chat_id)
                /\ Lookup(current_debtors', chat_id) =
                       Lookup(current_debtors, chat_id))

\* what confirm_delete_debtor has to leave behind
DebtorDeleted(chat_id) ==
    /\ Idle(user_states', chat_id)
    /\ chat_id \notin DOMAIN current_debtors'
    /\ chat_id \notin DOMAIN selected_debts'
    /\ chat_id \in DOMAIN current_debtors =>
           /\ get_debtor_by_id(debtors', current_debtors[chat_id].id) = NULL
           /\ \A d \in debtors : d.id # current_debtors[chat_id].id => d \in debtors'

\* the confirmation, handled in STATE_CONFIRMING_DELETE_DEBTOR, deletes the
\* current debtor and leaves the chat Idle without current debtor and
\* selected debt
DeleteDebtorConfirm ==
    \A chat_id \in Chats :
        (pc = NULL /\ StateOf(user_states, chat_id) = STATE_CONFIRMING_DELETE_DEBTOR) =>
            ENABLED (CbConfirmDeleteDebtor(chat_id) /\ DebtorDeleted(chat_id))

DeleteDebtorConfirmWithDebtor ==
    \A chat_id \in DOMAIN current_debtors :
        (pc = NULL /\ StateOf(user_states, chat_id) = STATE_CONFIRMING_DELETE_DEBTOR) =>
            ENABLED (CbConfirmDeleteDebtor(chat_id) /\ DebtorDeleted(chat_id))

\* the buttons of the edit-debt flow
EditDebtButtons ==
    \A chat_id \in Chats : \A debt_id \in DebtIds :
        /\ (get_debt_by_id(debts, debt_id) # NULL /\ CbEditDebt(chat_id, debt_id)) =>
               /\ StateOf(user_states', chat_id) = STATE_EDITING_CHOOSE_WHAT_TO_EDIT
               /\ UNCHANGED tables
        /\ CbEditAmount(chat_id, debt_id) =>
               /\ StateOf(user_states', chat_id) = STATE_EDITING_AMOUNT
               /\ selected_debts'[chat_id].id = debt_id
               /\ UNCHANGED tables
        /\ CbEditReason(chat_id, debt_id) =>
               /\ StateOf(user_states', chat_id) = STATE_EDITING_REASON
               /\ selected_debts'[chat_id].id = debt_id
               /\ UNCHANGED tables

\* the debts table with one field of one row replaced
WithAmount(debt_id, amount) ==
    {IF d.id = debt_id THEN [d EXCEPT !.amount = amount] ELSE d : d \in debts}
WithReason(debt_id, reason) ==
    {IF d.id = debt_id THEN [d EXCEPT !.reason = reason] ELSE d : d \in debts}

\* the texts that complete the edit-debt flow, for the chats in who
EditDebtTexts(who) ==
    \A chat_id \in who :
        /\ StateOf(user_states, chat_id) = STATE_EDITING_AMOUNT =>
               \A text \in AmountTexts :
                   (ParseAmount(text) # NULL /\ MsgEditingAmount(chat_id, text)) =>
                       /\ debts' = WithAmount(selected_debts[chat_id].id,
                                              ParseAmount(text)[1])
                       /\ debtors' = debtors
                       /\ Idle(user_states', chat_id)
        /\ StateOf(user_states, chat_id) = STATE_EDITING_REASON =>
               \A text \in ReasonTexts :
                   MsgEditingReason(chat_id, text) =>
                       /\ debts' = WithReason(selected_debts[chat_id].id, text)
                       /\ debtors' = debtors
                       /\ Idle(user_states', chat_id)

C17_EditDebtFlowWithDebtor ==
    [][EditDebtButtons /\ EditDebtTexts(DOMAIN current_debtors)]_vars

\* of the two tables only field f of debtor debtor_id may differ after the step
OnlyFieldChanged(debtor_id, f) ==
    /\ debts' = debts
    /\ {d.id : d \in debtors'} = {d.id : d \in debtors}
    /\ Cardinality(debtors') = Cardinality(debtors)
    /\ \A d \in debtors : \A e \in debtors' :
           d.id = e.id =>
               IF d.id = debtor_id THEN e = [d EXCEPT ![f] = e[f]] ELSE e = d

\* field f of debtor debtor_id after the step
FieldAfter(debtor_id, f) ==
    {e[f] : e \in {x \in debtors' : x.id = debtor_id}}

PaymentDateStates == {STATE_SETTING_PAYMENT_DATE, STATE_EDITING_PAYMENT_DATE}
PaymentAmountStates == {STATE_SETTING_PAYMENT_AMOUNT, STATE_EDITING_PAYMENT_AMOUNT}
AcceptedDateTexts == {text \in DateTexts : ParseDate(text) # NULL}
AcceptedPaymentAmountTexts == {text \in PaymentAmountTexts : ParseAmount(text) # NULL}

\* field f of the current debtor of chat_id became value, nothing else in the
\* tables changed, and the chat is Idle
PaymentFieldSet(chat_id, f, value) ==
    /\ chat_id \in DOMAIN current_debtors
    /\ Idle(user_states', chat_id)
    /\ OnlyFieldChanged(current_debtors[chat_id].id, f)
    /\ FieldAfter(current_debtors[chat_id].id, f) = {value}

\* what a step of handler does when it is the handling of a payment text or
\* clear button of chat_id: run to its clear_user_state it has the effect
\* done, stopped before it has changed no row
PaymentStep(chat_id, handler, done) ==
    IF ResetsChat(chat_id) THEN done \/ ~handler
    ELSE UNCHANGED tables \/ ~handler

\* an accepted date text sets the payment date of the current debtor only
PaymentDateSet(chat_id) ==
    StateOf(user_states, chat_id) \in PaymentDateStates =>
        \A text \in AcceptedDateTexts :
            PaymentStep(chat_id,
                        MsgSettingPaymentDate(chat_id, text)
                            \/ MsgEditingPaymentDate(chat_id, text),
                        PaymentFieldSet(chat_id, "payment_date", ParseDate(text)))

\* an accepted amount text sets the payment amount of the current debtor only
PaymentAmountSet(chat_id) ==
    StateOf(user_states, chat_id) \in PaymentAmountStates =>
        \A text \in AcceptedPaymentAmountTexts :
            PaymentStep(chat_id,
                        MsgSettingPaymentAmount(chat_id, text)
                            \/ MsgEditingPaymentAmount(chat_id, text),
                        PaymentFieldSet(chat_id, "payment_amount", ParseAmount(text)))

\* the clear buttons pressed with a current debtor
PaymentCleared(chat_id) ==
    chat_id \in DOMAIN current_debtors =>
        /\ PaymentStep(chat_id, CbClearPaymentDate(chat_id),
                       /\ Idle(user_states', chat_id)
                       /\ OnlyFieldChanged(current_debtors[chat_id].id, "payment_date"))
        /\ PaymentStep(chat_id, CbClearPaymentAmount(chat_id),
                       /\ Idle(user_states', chat_id)
                       /\ OnlyFieldChanged(current_debtors[chat_id].id, "payment_amount"))

\* the buttons that only ask for the date or the amount
PaymentPrompts(chat_id) ==
    \/ UNCHANGED tables
    \/ ~(CbSetPaymentDate(chat_id) \/ CbEditPaymentDate(chat_id)
         \/ CbSetPaymentAmount(chat_id) \/ CbEditPaymentAmount(chat_id))

\* C18: setting, editing or clearing the payment date changes only the payment
\* date of the current debtor, and likewise the payment amount: the other
\* scheduling field, name, owner, every debt and every other debtor are
\* unchanged, and a completed flow leaves the chat Idle.
C18_PaymentFieldsIndependent ==
    [][\A chat_id \in Chats :
           /\ PaymentDateSet(chat_id)
           /\ PaymentAmountSet(chat_id)
           /\ PaymentCleared(chat_id)
           /\ PaymentPrompts(chat_id)]_vars

\* a debtor carries both scheduling fields and its chat is Idle again after
\* the reset that closes a flow with that debtor shown
C18_Witness ==
    /\ last_reset # NULL
    /\ last_reset[1].focus_after # NULL
    /\ Idle(user_states, last_reset[1].chat)
    /\ \E d \in debtors :
           /\ d.id = last_reset[1].focus_after[1].id
           /\ d.payment_date # NULL
           /\ d.payment_amount # NULL
    /\ \E d \in debtors : d.payment_date = NULL /\ d.payment_amount # NULL

\* field f of debtor debtor_id is NULL after the step and every other debtor
\* row is as it was
FieldCleared(debtor_id, f) ==
    /\ FieldAfter(debtor_id, f) = {NULL}
    /\ \A d \in debtors : d.id # debtor_id => d \in debtors'
    /\ \A e \in debtors' : e.id # debtor_id => e \in debtors

\* C19: clear_payment_date or clear_payment_amount pressed without a current
\* debtor modifies no debtor row and leaves the chat Idle, still without a
\* current debtor; pressed with one, it nulls that field of exactly that debtor.
C19_ClearNeedsDebtor ==
    [][\A chat_id \in Chats :
           IF chat_id \notin DOMAIN current_debtors
           THEN \/ /\ debtors' = debtors
                   /\ Idle(user_states', chat_id)
                   /\ chat_id \notin DOMAIN current_debtors'
                \/ ~(CbClearPaymentDate(chat_id) \/ CbClearPaymentAmount(chat_id))
           ELSE /\ \/ FieldCleared(current_debtors[chat_id].id, "payment_date")
                   \/ ~CbClearPaymentDate(chat_id)
                /\ \/ FieldCleared(current_debtors[chat_id].id, "payment_amount")
                   \/ ~CbClearPaymentAmount(chat_id)
      ]_vars

\* a chat was reset while it had no current debtor and a stored debtor still
\* carries its payment amount
C19_Witness ==
    /\ last_reset # NULL
    /\ last_reset[1].focus_before = NULL
    /\ last_reset[1].chat \notin DOMAIN current_debtors
    /\ \E d \in debtors : d.payment_amount # NULL

\* the buttons that look the debt up before acting on its id
CheckedDebtButton(chat_id, debt_id) ==
    \/ CbCloseDebt(chat_id, debt_id)
    \/ CbEditDebt(chat_id, debt_id)
    \/ CbSubtractFromDebt(chat_id, debt_id)

\* the buttons that act on the id as it comes
UncheckedDebtButton(chat_id, debt_id) ==
    \/ CbEditAmount(chat_id, debt_id)
    \/ CbEditReason(chat_id, debt_id)
    \/ CbConfirmClose(chat_id, debt_id)

\* C20: close_debt, edit_debt, edit_amount, edit_reason, subtract_from_debt and
\* confirm_close pressed with the id of a debt that is not in the store leave
\* the chat's state, its current debtor and selected debt and every row
\* unchanged.
C20_MissingDebtIgnored ==
    [][\A chat_id \in Chats : \A debt_id \in DebtIds :
           get_debt_by_id(debts, debt_id) = NULL =>
               \/ UNCHANGED <<session, tables>>
               \/ ~(CheckedDebtButton(chat_id, debt_id)
                    \/ UncheckedDebtButton(chat_id, debt_id))]_vars

\* the same for close_debt, edit_debt and subtract_from_debt alone
C20_CheckedButtonsIgnoreMissingDebt ==
    [][\A chat_id \in Chats : \A debt_id \in DebtIds :
           get_debt_by_id(debts, debt_id) = NULL =>
               \/ UNCHANGED <<session, tables>>
               \/ ~CheckedDebtButton(chat_id, debt_id)]_vars

\* the debtors a chat owns and the debts a debtor owns
OwnedBy(chat_id) == {d \in debtors : d.chat_id = chat_id}
DebtsOf(debtor) == {b \in debts : b.debtor_id = debtor.id}

RECURSIVE ExpectedRows(_)
\* the sum over a set of debtors of max(1, number of debts)
ExpectedRows(S) ==
    IF S = {} THEN 0
    ELSE LET d == CHOOSE x \in S : TRUE
             n == Cardinality(DebtsOf(d))
         IN (IF n = 0 THEN 1 ELSE n) + ExpectedRows(S \ {d})

\* the data rows of a document: all but the header
DataRows(doc) == Tail(doc)
\* the positions of the data rows that carry the name of debtor
RowsOf(doc, debtor) ==
    {i \in DOMAIN DataRows(doc) : DataRows(doc)[i][1] = debtor.name}

\* the rows of one debtor: one per debt with its reason and amount, or the
\* one sentinel row
DebtorRows(doc, debtor) ==
    IF DebtsOf(debtor) = {}
    THEN /\ Cardinality(RowsOf(doc, debtor)) = 1
         /\ \A i \in RowsOf(doc, debtor) :
                /\ DataRows(doc)[i][5] = <<>>
                /\ DataRows(doc)[i][6] = <<"0", ".", "0", "0">>
    ELSE /\ Cardinality(RowsOf(doc, debtor)) = Cardinality(DebtsOf(debtor))
         /\ \A b \in DebtsOf(debtor) :
                Cardinality({i \in RowsOf(doc, debtor) :
                                /\ DataRows(doc)[i][5] = b.reason
                                /\ DataRows(doc)[i][6] = Format2(b.amount)})
                    = Cardinality({c \in DebtsOf(debtor) :
                                      /\ c.reason = b.reason
                                      /\ Format2(c.amount) = Format2(b.amount)})

\* C21: generate_csv(chat_id) is None exactly when the chat owns no debtor;
\* otherwise the document has, after the header, the sum over the chat's
\* debtors of max(1, number of debts) rows: one per (debtor, debt) pair and
\* one sentinel row (empty reason, amount "0.00") per debtor without debts;
\* debtors of other chats contribute no row.
C21_ExportRows ==
    \A chat_id \in Chats :
        LET csv == generate_csv(debtors, debts, chat_id)
        IN /\ (csv = NULL) <=> (OwnedBy(chat_id) = {})
           /\ csv # NULL =>
                  /\ csv[1][1] = CsvHeader
                  /\ Len(DataRows(csv[1])) = ExpectedRows(OwnedBy(chat_id))
                  /\ \A debtor \in OwnedBy(chat_id) : DebtorRows(csv[1], debtor)
                  /\ \A i \in DOMAIN DataRows(csv[1]) :
                         \E debtor \in OwnedBy(chat_id) :
                             DataRows(csv[1])[i][1] = debtor.name

\* a chat that was reset to Idle, as by /exportcsv, owns a debtor with two
\* debts and a debtor with none
C21_Witness ==
    /\ last_reset # NULL
    /\ Idle(user_states, last_reset[1].chat)
    /\ \E d \in OwnedBy(last_reset[1].chat) : Cardinality(DebtsOf(d)) = 2
    /\ \E d \in OwnedBy(last_reset[1].chat) : DebtsOf(d) = {}

RECURSIVE SumOfDebts(_)
\* the sum of the amounts of a set of debts
SumOfDebts(S) ==
    IF S = {} THEN 0
    ELSE LET b == CHOOSE x \in S : TRUE IN b.amount + SumOfDebts(S \ {b})

RECURSIVE ColumnSum(_, _)
\* the sum of the debt-amount column over the data rows at positions I, the
\* cells read back as numbers
ColumnSum(doc, I) ==
    IF I = {} THEN 0
    ELSE LET i == CHOOSE x \in I : TRUE
         IN ParseFloat(DataRows(doc)[i][6])[1] + ColumnSum(doc, I \ {i})

\* every row of debtor shows the sum of the debtor's debts in two decimals
TotalColumn(doc, debtor) ==
    \A i \in RowsOf(doc, debtor) :
        DataRows(doc)[i][2] = Format2(SumOfDebts(DebtsOf(debtor)))

\* the debt-amount column of debtor's rows adds up to the total they show
ColumnAddsUp(doc, debtor) ==
    \A i \in RowsOf(doc, debtor) :
        ColumnSum(doc, RowsOf(doc, debtor)) = ParseFloat(DataRows(doc)[i][2])[1]

\* C22 as stated: in every data row the total-debt column is the sum of the
\* amounts of the debts of the row's debtor (0 on the sentinel row), so the
\* rows of one debtor show the same total and their debt-amount column adds
\* up to it.
C22_TotalIsColumnSum ==
    \A chat_id \in Chats :
        LET csv == generate_csv(debtors, debts, chat_id)
        IN csv # NULL =>
               \A debtor \in OwnedBy(chat_id) :
                   /\ TotalColumn(csv[1], debtor)
                   /\ ColumnAddsUp(csv[1], debtor)

\* the amounts of debtor's debts have no digit after the hundredths
WholeHundredths(debtor) == \A b \in DebtsOf(debtor) : b.amount % 10 = 0

\* C22 amended: in every data row the total-debt column is the sum of the
\* amounts of the debts of the row's debtor written with two decimals, the
\* same on all rows of a debtor; the debt-amount column adds up to it when
\* no amount of the debtor has a digit after the hundredths.
C22_TotalIsFormattedSum ==
    \A chat_id \in Chats :
        LET csv == generate_csv(debtors, debts, chat_id)
        IN csv # NULL =>
               \A debtor \in OwnedBy(chat_id) :
                   /\ TotalColumn(csv[1], debtor)
                   /\ WholeHundredths(debtor) => ColumnAddsUp(csv[1], debtor)

\* a chat that was reset to Idle, as by /exportcsv, owns a debtor with two
\* debts of whole roubles, whose total exceeds either amount
C22_Witness ==
    /\ last_reset # NULL
    /\ Idle(user_states, last_reset[1].chat)
    /\ \E d \in OwnedBy(last_reset[1].chat) :
           /\ Cardinality(DebtsOf(d)) = 2
           /\ WholeHundredths(d)
           /\ \A b \in DebtsOf(d) : SumOfDebts(DebtsOf(d)) > b.amount

\* the Session Context of a chat
SessionOf(us, cd, sd, chat_id) ==
    <<StateOf(us, chat_id), Lookup(cd, chat_id), Lookup(sd, chat_id)>>

\* the step handles an event of chat_id
Handles(chat_id) ==
    IF chat_id = 1
    THEN \/ Command(chat_id)
         \/ MessageSessions(chat_id)
         \/ Callback(chat_id)
         \/ pc # NULL /\ pc[1].chat = chat_id /\ SubtractClose
    ELSE OtherChat(chat_id)

\* C23: handling a text, a button or a command of chat A leaves the state,
\* the current debtor and the selected debt of every other chat B unchanged,
\* however the events of A and B interleave.
C23_SessionsIndependent ==
    [][\A A \in Chats : \A B \in Chats \ {A} :
           \/ SessionOf(user_states', current_debtors', selected_debts', B)
                  = SessionOf(user_states, current_debtors, selected_debts, B)
           \/ ~Handles(A)]_vars

\* both chats are in the middle of a flow, each with a current debtor and a
\* selected debt
C23_Witness ==
    \A chat_id \in Chats :
        /\ ~Idle(user_states, chat_id)
        /\ chat_id \in DOMAIN current_debtors
        /\ chat_id \in DOMAIN selected_debts

\* C24: when a store call fails while an event of a chat is handled, the
\* chat's state, current debtor and selected debt after the event are what
\* they were before it.
C24_FaultKeepsSession ==
    [][\A chat_id \in Chats :
           \/ SessionOf(user_states', current_debtors', selected_debts', chat_id)
                  = SessionOf(user_states, current_debtors, selected_debts, chat_id)
           \/ ~StorageFault(chat_id)]_vars

\* the debtor ids with which a handler of chat_id would call
\* show_debtor_details in the current state: the owner of the selected debt
\* after a repayment text, the current debtor after the other flows
ShownNext(chat_id) ==
    (IF /\ StateOf(user_states, chat_id) = STATE_SUBTRACTING_FROM_DEBT
        /\ chat_id \in DOMAIN selected_debts
        /\ "debtor_id" \in DOMAIN selected_debts[chat_id]
     THEN {selected_debts[chat_id].debtor_id} ELSE {})
    \cup (IF chat_id \in DOMAIN current_debtors
          THEN {current_debtors[chat_id].id} ELSE {})

DatesWritten(text, sep, four) ==
    LET n == IF four THEN 4 ELSE 2
        yt == SubSeq(text, Len(text) - n + 1, Len(text))
        yv == DigitsValue(yt)
        year == IF four THEN yv ELSE IF yv <= 68 THEN 2000 + yv ELSE 1900 + yv
    IN IF Len(text) <= n \/ ~AllDigits(yt) \/ year < 1 THEN {}
       ELSE {[year |-> year, month |-> m, day |-> d] :
                <<d, m>> \in
                    {dm \in (1..31) \X (1..12) :
                        /\ dm[2] \in {4, 6, 9, 11} => dm[1] <= 30
                        /\ dm[2] = 2 => dm[1] <= 29
                        /\ (dm[2] = 2 /\ dm[1] = 29) =>
                               (year % 4 = 0 /\ (year % 100 # 0 \/ year % 400 = 0))
                        /\ \E dt \in {DigitsText(dm[1]), TwoDigits(dm[1])} :
                           \E mt \in {DigitsText(dm[2]), TwoDigits(dm[2])} :
                               text = dt \o <<sep>> \o mt \o <<sep>> \o yt}}

\* the date of the first of dd.mm.yyyy, dd.mm.yy, dd-mm-yyyy, dd-mm-yy that
\* text is written in, <<>> when it is written in none
FirstFormat(text) ==
    LET a == DatesWritten(text, ".", TRUE)
        b == DatesWritten(text, ".", FALSE)
        c == DatesWritten(text, "-", TRUE)
        d == DatesWritten(text, "-", FALSE)
        first == IF a # {} THEN a ELSE IF b # {} THEN b ELSE IF c # {} THEN c ELSE d
    IN IF first = {} THEN NULL ELSE Some(CHOOSE x \in first : TRUE)

\* the date each probed text is written in, by the first format
DateWritten == [text \in ProbeDateTexts |-> FirstFormat(text)]

\* the dates the parsing gives to the probed texts
DateParsed == [text \in ProbeDateTexts |-> ParseDate(text)]

\* the texts of a chat that are written in one of the formats, and the others
WrittenDateTexts == {text \in DateTexts : DateWritten[text] # NULL}
UnwrittenDateTexts == {text \in DateTexts : DateWritten[text] = NULL}

\* the parsing accepts exactly the texts written in one of the four formats,
\* with the date of the first; "05.03.25" is 5 March 2025, shown "05.03.2025"
DateFormatsDecide ==
    /\ DateParsed = DateWritten
    /\ DateParsed[T_date_yy] = Some([year |-> 2025, month |-> 3, day |-> 5])
    /\ FormatDate(DateParsed[T_date_yy][1]) = T_date_long

\* a date text of chat_id is awaited
DateAwaited(chat_id) ==
    /\ pc = NULL
    /\ StateOf(user_states, chat_id) \in PaymentDateStates

\* the step is the handling of text as the awaited date
DateTextStep(chat_id, text) ==
    MsgSettingPaymentDate(chat_id, text) \/ MsgEditingPaymentDate(chat_id, text)

\* a text written in none of the formats changes nothing
DateRejected ==
    \A chat_id \in Chats :
        DateAwaited(chat_id) =>
            \A text \in UnwrittenDateTexts :
                UNCHANGED <<session, tables>> \/ ~DateTextStep(chat_id, text)

\* the handling of a text written in one of the formats stores the date of the
\* first format as the payment date of the current debtor and ends Idle
DateStored ==
    \A chat_id \in Chats :
        StateOf(user_states, chat_id) \in PaymentDateStates =>
            \A text \in WrittenDateTexts :
                PaymentStep(chat_id, DateTextStep(chat_id, text),
                            /\ chat_id \in DOMAIN current_debtors
                            /\ Idle(user_states', chat_id)
                            /\ FieldAfter(current_debtors[chat_id].id, "payment_date")
                                   = {DateWritten[text]})

\* a text written in one of the formats is handled to its end
DateAccepted ==
    \A chat_id \in Chats :
        DateAwaited(chat_id) =>
            \A text \in WrittenDateTexts :
                ENABLED (DateTextStep(chat_id, text) /\ Idle(user_states', chat_id))

\* C26: in STATE_SETTING_PAYMENT_DATE and STATE_EDITING_PAYMENT_DATE alike a
\* text is accepted exactly when it is written as dd.mm.yyyy, dd.mm.yy,
\* dd-mm-yyyy or dd-mm-yy, the first of these deciding the date stored
\* ("05.03.25" is 5 March 2025 and shown as "05.03.2025"); any other text
\* leaves the chat in its state and the payment date as it was.
C26_DateTexts ==
    /\ DateFormatsDecide
    /\ []DateAccepted
    /\ [][DateRejected /\ DateStored]_vars

\* what the handling of a date text does whenever it runs to its end
C26_DateTextsHandled ==
    /\ DateFormatsDecide
    /\ [][DateRejected /\ DateStored]_vars

\* chat_id awaits the confirmation of the closing of debt debt_id
ConfirmingClose(chat_id, debt_id) ==
    /\ StateOf(user_states, chat_id) = STATE_CONFIRMING_CLOSE_DEBT
    /\ chat_id \in DOMAIN selected_debts
    /\ selected_debts[chat_id].id = debt_id

\* C27: confirm_close:<id> deletes a debt row only in a step taken while the
\* chat is in STATE_CONFIRMING_CLOSE_DEBT with the debt of that id selected;
\* pressed in any other state it deletes nothing.
C27_ConfirmCloseNeedsPrompt ==
    [][\A chat_id \in Chats : \A debt_id \in DebtIds :
           \/ debts' = debts
           \/ ConfirmingClose(chat_id, debt_id)
           \/ ~CbConfirmClose(chat_id, debt_id)]_vars

\* chat_id awaits the confirmation of the deletion of its current debtor
ConfirmingDelete(chat_id) ==
    StateOf(user_states, chat_id) = STATE_CONFIRMING_DELETE_DEBTOR

\* confirm_delete_debtor deletes rows only while the deletion is awaited, and
\* then the current debtor and no other
DeletesAwaitedDebtor(chat_id) ==
    \/ UNCHANGED tables
    \/ /\ ConfirmingDelete(chat_id)
       /\ chat_id \in DOMAIN current_debtors
       /\ debtors' = {d \in debtors : d.id # current_debtors[chat_id].id}
    \/ ~CbConfirmDeleteDebtor(chat_id)

\* as long as the deletion is awaited the current debtor is the one it was
\* when delete_debtor asked for the confirmation
AwaitedDebtorStays(chat_id) ==
    (ConfirmingDelete(chat_id) /\ StateOf(user_states', chat_id) = STATE_CONFIRMING_DELETE_DEBTOR)
        => Lookup(current_debtors', chat_id) = Lookup(current_debtors, chat_id)

\* C28: confirm_delete_debtor deletes only while the chat is in
\* STATE_CONFIRMING_DELETE_DEBTOR, and the debtor it deletes is the one that
\* was current when delete_debtor opened the confirmation, whatever happened
\* in between.
C28_DeletesPromptedDebtor ==
    [][\A chat_id \in Chats :
           DeletesAwaitedDebtor(chat_id) /\ AwaitedDebtorStays(chat_id)]_vars

\* the current debtor cannot change under an open confirmation
C28_AwaitedDebtorStays ==
    [][\A chat_id \in Chats : AwaitedDebtorStays(chat_id)]_vars

\* the states whose handling reads the current debtor
DebtorStates ==
    {STATE_ADDING_DEBT_REASON, STATE_ADDING_DEBT_AMOUNT, STATE_EDITING_AMOUNT,
     STATE_EDITING_REASON, STATE_SETTING_PAYMENT_DATE,
     STATE_SETTING_PAYMENT_AMOUNT, STATE_EDITING_PAYMENT_DATE,
     STATE_EDITING_PAYMENT_AMOUNT, STATE_CONFIRMING_DELETE_DEBTOR}

\* C29: in every reachable state a chat in STATE_ADDING_DEBT_REASON,
\* STATE_ADDING_DEBT_AMOUNT, STATE_EDITING_AMOUNT, STATE_EDITING_REASON, one
\* of the four payment states or STATE_CONFIRMING_DELETE_DEBTOR has a current
\* debtor: no button moves a chat into such a state without one.
C29_DebtorStatesHaveDebtor ==
    \A chat_id \in Chats :
        StateOf(user_states, chat_id) \in DebtorStates =>
            chat_id \in DOMAIN current_debtors

\* chat_id has a selected debt with the fields in fields
SelectedWith(chat_id, fields) ==
    /\ chat_id \in DOMAIN selected_debts
    /\ fields \subseteq DOMAIN selected_debts[chat_id]

\* C30: in every reachable state a chat whose state's text handler reads the
\* selected debt has it with the field read: the pending reason in
\* STATE_ADDING_DEBT_AMOUNT, the debt id in STATE_EDITING_AMOUNT and
\* STATE_EDITING_REASON, the whole debt record (id, owner, amount, reason) in
\* STATE_SUBTRACTING_FROM_DEBT.
C30_SelectedDebtPresent ==
    \A chat_id \in Chats :
        LET state == StateOf(user_states, chat_id)
        IN /\ state = STATE_ADDING_DEBT_AMOUNT => SelectedWith(chat_id, {"reason"})
           /\ state \in {STATE_EDITING_AMOUNT, STATE_EDITING_REASON} =>
                  SelectedWith(chat_id, {"id"})
           /\ state = STATE_SUBTRACTING_FROM_DEBT =>
                  SelectedWith(chat_id, {"id", "debtor_id", "amount", "reason"})

\* a chat asked for the amount of a second debt, after its selected debt was
\* used and dropped by an earlier flow
C30_Witness ==
    \E chat_id \in Chats :
        /\ StateOf(user_states, chat_id) = STATE_ADDING_DEBT_AMOUNT
        /\ SelectedWith(chat_id, {"reason"})
        /\ debts # {}

\* the current debtor of chat_id is a row of the store that chat_id owns
FocusIsOwnRow(chat_id) ==
    \E d \in debtors :
        /\ d.id = current_debtors[chat_id].id
        /\ d.chat_id = chat_id

\* C31: in every reachable state the current debtor of a chat, if it has one,
\* is a debtor row that exists in the store and is owned by that chat.
C31_FocusIsOwnDebtor ==
    \A chat_id \in DOMAIN current_debtors : FocusIsOwnRow(chat_id)

\* the same for the existence of the row alone
C31_FocusExists ==
    \A chat_id \in DOMAIN current_debtors :
        get_debtor_by_id(debtors, current_debtors[chat_id].id) # NULL

\* the debtor rows that chat_id owns and the debt rows of these debtors
LedgerOf(drows, rows, chat_id) ==
    LET own == {d \in drows : d.chat_id = chat_id}
    IN [debtors |-> own,
        debts |-> {x \in rows : \E d \in own : d.id = x.debtor_id}]

\* the step is the handling of an event of chat_id
HandlesTwoChats(chat_id) ==
    \/ TwoChats(chat_id)
    \/ (pc # NULL /\ pc[1].chat = chat_id /\ SubtractClose)

\* C32: no event handled for a chat creates, modifies or deletes a debtor row
\* owned by another chat or a debt row of such a debtor, whatever id the
\* button carries.
C32_OtherLedgersUntouched ==
    [][\A A \in Chats : \A B \in Chats \ {A} :
           \/ LedgerOf(debtors', debts', B) = LedgerOf(debtors, debts, B)
           \/ ~HandlesTwoChats(A)]_vars

\* the selected debt of chat_id carries the amount stored for its id
SnapshotIsCurrent(chat_id) ==
    /\ chat_id \in DOMAIN selected_debts
    /\ {"id", "amount"} \subseteq DOMAIN selected_debts[chat_id]
    /\ \E d \in debts :
           /\ d.id = selected_debts[chat_id].id
           /\ d.amount = selected_debts[chat_id].amount

\* C33: in every reachable state in which a chat is in
\* STATE_SUBTRACTING_FROM_DEBT and awaits the amount, the debt of its selected
\* debt exists and the amount held in the selected debt is the amount stored
\* for that id.
C33_SnapshotIsCurrent ==
    \A chat_id \in Chats :
        (pc = NULL /\ StateOf(user_states, chat_id) = STATE_SUBTRACTING_FROM_DEBT)
            => SnapshotIsCurrent(chat_id)

\* the debt rows that the step modifies or deletes, as they were before it
MutatedDebts == {d \in debts : d \notin debts'}

\* chat_id ends the step with the owner of debt d as its current debtor
OwnerInFocus(chat_id, d) ==
    /\ chat_id \in DOMAIN current_debtors'
    /\ current_debtors'[chat_id].id = d.debtor_id

\* C34: when a flow of a chat that modifies or deletes a debt completes (the
\* texts of STATE_EDITING_AMOUNT, STATE_EDITING_REASON and
\* STATE_SUBTRACTING_FROM_DEBT, and confirm_close), the debtor shown and left
\* as the chat's current debtor is the owner of that debt, also when the
\* chat's current debtor was another one.
C34_OwnerShownAfterMutation ==
    [][\A chat_id \in Chats :
           ResetsChat(chat_id) =>
               \A d \in MutatedDebts :
                   get_debtor_by_id(debtors, d.debtor_id) # NULL =>
                       OwnerInFocus(chat_id, d)]_vars

\* the same for the flows that start with a current debtor who owns the debt
C34_OwnerShownFromOwnMenu ==
    [][\A chat_id \in Chats :
           ResetsChat(chat_id) =>
               \A d \in MutatedDebts :
                   (/\ get_debtor_by_id(debtors, d.debtor_id) # NULL
                    /\ chat_id \in DOMAIN current_debtors
                    /\ current_debtors[chat_id].id = d.debtor_id) =>
                       OwnerInFocus(chat_id, d)]_vars

====
